---- MODULE Spec2Model ----
(***************************************************************************)
(* Model of the concurrency and dispatch engine of MCSL2_API:              *)
(*   - EventBus (src/MCSL2_API/events/bus.py): on / emit / _safe_call      *)
(*   - ThreadManager.submit (src/utils/threading.py): the worker pool      *)
(*   - run_on_ui_thread / _MainThreadInvoker (src/utils/threading.py)      *)
(*   - EventBus.install_hooks / hook_bridge (bus.py): the hook installer   *)
(* Every thread is a call stack of frames; the bus lock, the handler table *)
(* and the pool queue are shared.  What a handler function does when it is *)
(* called is user code: it is chosen nondeterministically at the call.     *)
(***************************************************************************)
EXTENDS Integers, Sequences, FiniteSets, TLC

\* ------------------------------------------------------------- bounds
\* total number of bus.on(...) subscriptions made in a behaviour
MaxSubs == 2

\* total number of run_on_ui_thread(...) calls made in a behaviour
MaxCalls == 2

\* total number of ThreadManager.submit(...) calls made in a behaviour
MaxTasks == 4

\* ThreadManager(max_workers=N): the size of the pool (4 when the argument is left out)
MaxWorkers == 2

\* total number of install_hooks() calls made in a behaviour
MaxInstalls == 3

\* total number of ServerLauncher.start() calls made in a behaviour
MaxStarts == 2

\* total number of hook_bridge(...) calls made by collaborators in a behaviour
MaxHooks == 1

\* total number of signals a behaviour lets the bridges send
MaxNotes == 2

\* total number of ServerAdapter.start_server calls made in a behaviour
MaxSrv == 2

\* total number of register_bridge and get_bridge calls made in a behaviour
MaxRegOps == 4

\* total number of APICore() calls made in a behaviour
MaxNews == 4

\* total number of guarded calls (load, enable, disable, other) made in a behaviour
MaxLife == 2

\* the most Plugin.subscribe decorators on the decorated method of the plugin
MaxMetas == 2

\* ------------------------------------------------------------- inputs
\* threads that call the bus from outside the pool (plugin / UI code)
Callers == {"t1"}
\* threads of the ThreadPoolExecutor
Workers == {"w1"}
Threads == Callers \cup Workers
\* event classes used as keys of EventBus._handlers
EventTypes == {"A", "B"}
\* priorities handed to bus.on(..., priority=p)
Priorities == {1, 10}
NoThread == "none"
\* names of the emit calls alive at once (running, or returned with tasks still in
\* the pool) and of the event objects they hold
Slots == {1, 2}

\* ------------------------------------------------------------- state
VARIABLES
    handlers,   \* EventBus._handlers : event type -> list of _HandlerRef
    lockOwner,  \* EventBus._lock (RLock): the owning thread or NoThread
    lockCount,  \* EventBus._lock: recursion level of the owner
    events,     \* the event objects still referenced: [type, cancelled, used]
    emits,      \* one record per live emit call: its event, snapshot and dispatch log
    stack,      \* per thread: the call stack, innermost frame last
    poolQueue   \* ThreadPoolExecutor work queue: tasks <<emit, position>>

busVars == <<handlers, lockOwner, lockCount, events, emits, stack, poolQueue>>

\* the Qt main thread and the threads that marshal calls to it
UiThread == "ui"
BgThreads == {"b1", "b2"}
MThreads == {UiThread} \cup BgThreads
\* what a marshaled callable gives: one of two values, or it raises
Values == {"x", "y"}
Raises == "exc"

VARIABLES
    mApp,       \* QCoreApplication.instance() is not None
    mCalls,     \* one record per run_on_ui_thread call: its callable, future and result
    mQueue,     \* the queued invoke signals of _MainThreadInvoker, oldest first
    mStack      \* per thread: the call stack, innermost frame last

uiVars == <<mApp, mCalls, mQueue, mStack>>

\* the worker threads of the executor of ThreadManager
PoolWorkers == 1..MaxWorkers
\* threads that call ThreadManager.submit
Submitters == {"s1", "s2"}
\* the tasks handed to submit: "inc" adds one to a counter under a lock,
\* "exc" raises
TaskKinds == {"inc", "exc"}

VARIABLES
    pTasks,     \* one record per submit call, in submission order: the task and its Future
    pQueue,     \* the work queue of the executor: submitted tasks no worker has taken
    pWork,      \* per worker thread of the executor: what it is doing
    pCounter,   \* the counter the "inc" tasks add to
    pLock,      \* the lock guarding the counter: the holding worker or 0
    pShut       \* the executor: shut down or not, the tasks that were unfinished at the
                \* shutdown, and the submit calls it has rejected

poolVars == <<pTasks, pQueue, pWork, pCounter, pLock, pShut>>

\* the EventBus instances whose hooks are installed and the threads that do it
Buses == {1, 2}
HookThreads == {"h1", "h2"}
\* config.serverName of a launcher: "" when no name can be derived
ServerNames == {"", "s"}
\* what the original ServerLauncher.start returns: a new _ServerProcessBridge,
\* the _MinecraftEULA object, or None
StartResults == {"bridge", "eula", "none"}

VARIABLES
    hHost,      \* MCSL2Lib...processCreator.ServerLauncher.start can be looked up
    hStart,     \* ServerLauncher.start: the buses of the wrappers around the original
                \* function, innermost first (<<>>: the original itself)
    hInstalled, \* per bus: EventBus._hooks_installed
    hKeys,      \* per bus: the keys of EventBus._bridge_hooks, <<name, bridge>>
    hBridges,   \* one record per bridge the factory made: its listeners and captures
    hRegistry,  \* APICore._bridges: server name -> bridge (0: no entry)
    hThr,       \* per thread: the call it is in
    hCalls,     \* install_hooks calls made so far
    hDone,      \* per bus: install_hooks calls that have returned
    hStarts,    \* ServerLauncher.start calls made so far
    hHooks,     \* hook_bridge calls made by collaborators so far
    hEmits,     \* the events the listeners handed to EventBus.emit for the last signal
    hNotes,     \* signals the bridges have sent so far
    hNote,      \* the last signal: the bridge, the channel and the argument
    hSrv        \* one record per ServerAdapter.start_server call, oldest first

hookVars == <<hHost, hStart, hInstalled, hKeys, hBridges, hRegistry, hThr, hCalls,
              hDone, hStarts, hHooks, hEmits, hNotes, hNote, hSrv>>
\* the callers of APICore.register_bridge and APICore.get_bridge
RegThreads == {"r1", "r2"}
\* server_name arguments: the str "a", the str "1" and the int 1, as <<type, text>>
RegNames == {<<"str", "a">>, <<"str", "1">>, <<"int", "1">>}
\* bridges (0: None)
Handles == {1, 2}

VARIABLES
    rBridges,   \* APICore._bridges: key -> bridge (0: no entry)
    rLock,      \* owner of APICore._bridges_lock
    rThr,       \* per thread: the call it is in
    rLast,      \* per key: the bridge of the register_bridge call that took the lock last
    rWritten,   \* per key: the bridges written so far
    rOps        \* register_bridge and get_bridge calls made so far

regVars == <<rBridges, rLock, rThr, rLast, rWritten, rOps>>

\* the threads of the process that import MCSL2_API and call APICore()
CoreThreads == {"c1", "c2", "c3"}

VARIABLES
    cImport,    \* the import of the package MCSL2_API: "no", the importing thread, "done"
    cInstance,  \* APICore._instance (0: None)
    cMade,      \* APICore objects built so far; they are numbered 1, 2, ...
    cThr,       \* per thread: where it is in APICore.__new__, its local inst, whether
                \* its import of the package has returned, the result of its last call
    cGot,       \* the objects that APICore() calls have returned
    cNews       \* APICore() calls made so far

coreVars == <<cImport, cInstance, cMade, cThr, cGot, cNews>>

VARIABLES
    plDecl,     \* __mcsl2_api_subscribe__ of the decorated method: one entry per
                \* Plugin.subscribe decorator, "typed" when bus.subscribe finds the
                \* event class, "untyped" when it cannot
    plSig,      \* the lifecycle callbacks as inspect.signature sees them: "zero" (no
                \* parameter), "one" (the context), "nosig" (signature raises TypeError)
    plTable,    \* the handler list of the event class of the method: per entry the
                \* position in plDecl of the decorator it was registered for
    plCall,     \* the guarded call under way
    plKinds,    \* the guarded calls that returned, in order
    plLast,     \* the guarded call that returned last
    plHits      \* how often the last emit invoked the method (-1: no emit yet)

plugVars == <<plDecl, plSig, plTable, plCall, plKinds, plLast, plHits>>

vars == <<busVars, uiVars, poolVars, hookVars, regVars, coreVars, plugVars>>
notBus == <<uiVars, poolVars, hookVars, regVars, coreVars, plugVars>>
notUi == <<busVars, poolVars, hookVars, regVars, coreVars, plugVars>>
notPool == <<busVars, uiVars, hookVars, regVars, coreVars, plugVars>>
notHook == <<busVars, uiVars, poolVars, regVars, coreVars, plugVars>>
notReg == <<busVars, uiVars, poolVars, hookVars, coreVars, plugVars>>
notCore == <<busVars, uiVars, poolVars, hookVars, regVars, plugVars>>
notPlug == <<busVars, uiVars, poolVars, hookVars, regVars, coreVars>>

\* ------------------------------------------------------------- helpers
Top(t) == stack[t][Len(stack[t])]
Busy(t) == Len(stack[t]) > 0
Push(t, f) == [stack EXCEPT ![t] = Append(@, f)]
Pop(t) == [stack EXCEPT ![t] = SubSeq(@, 1, Len(@) - 1)]
SetTopPc(t, p) == [stack EXCEPT ![t][Len(stack[t])].pc = p]

\* _HandlerRef(fn, background, priority); the callable fn is named <<ty, n>>: the
\* n-th one subscribed under event class ty
HandlerRef(f, b, p) == [fn |-> f, background |-> b, priority |-> p]

\* frames: op "emit" (bus.emit), "call" (_safe_call of position i of emit k)
EmitFrame(k) == [op |-> "emit", pc |-> "acquire", k |-> k, i |-> 0]
CallFrame(k, i) == [op |-> "call", pc |-> "body", k |-> k, i |-> i]

\* number of subscriptions made so far
Appended == Len(handlers["A"]) + Len(handlers["B"])

\* threading.RLock.acquire succeeds for a free lock and for its owner
CanAcquire(t) == lockOwner = NoThread \/ lockOwner = t

\* the sort without reverse=True: ascending
RECURSIVE SortedInsertAscending(_, _)
SortedInsertAscending(sorted, r) ==
    IF sorted = <<>> THEN <<r>>
    ELSE IF Head(sorted).priority <= r.priority
         THEN <<Head(sorted)>> \o SortedInsertAscending(Tail(sorted), r)
         ELSE <<r>> \o sorted

\* a descending sort that is not stable: equal priorities come out reversed
RECURSIVE SortedInsertUnstable(_, _)
SortedInsertUnstable(sorted, r) ==
    IF sorted = <<>> THEN <<r>>
    ELSE IF Head(sorted).priority > r.priority
         THEN <<Head(sorted)>> \o SortedInsertUnstable(Tail(sorted), r)
         ELSE <<r>> \o sorted

\* refs.sort(key=lambda r: r.priority, reverse=True): stable, descending
RECURSIVE SortedInsert(_, _)
SortedInsert(sorted, r) ==
    IF sorted = <<>> THEN <<r>>
    ELSE IF Head(sorted).priority >= r.priority
         THEN <<Head(sorted)>> \o SortedInsert(Tail(sorted), r)
         ELSE <<r>> \o sorted

RECURSIVE SortRefs(_)
SortRefs(refs) ==
    IF refs = <<>> THEN <<>>
    ELSE SortedInsert(SortRefs(SubSeq(refs, 1, Len(refs) - 1)), refs[Len(refs)])

\* _safe_call without its try/except: the exception leaves it
SafeCallOutcomeNoCatch(raised) == IF raised THEN "raised" ELSE "returned"

\* _safe_call's try/except Exception: what leaves _safe_call when fn(event) raised
\* "logged": caught and logged, _safe_call returns; "raised": it leaves _safe_call
SafeCallOutcome(raised) == IF raised THEN "logged" ELSE "returned"

\* getattr(event, "cancelled", False)
Cancelled(e) == events[e].cancelled

\* a new record of one emit call on event e by thread t
EmitRec(e, t, ty) ==
    [ev |-> e, th |-> t, st |-> "running", snapped |-> FALSE, refs |-> <<>>,
     log |-> <<>>, atCall |-> Len(handlers[ty]), atSnap |-> 0]
\* the slot of an emit call whose locals are gone, and of an event nobody holds
FreeEmit ==
    [ev |-> 0, th |-> NoThread, st |-> "free", snapped |-> FALSE, refs |-> <<>>,
     log |-> <<>>, atCall |-> 0, atSnap |-> 0]
FreeEvent == [type |-> "A", cancelled |-> FALSE, used |-> FALSE]
NewEvent(ty) == [type |-> ty, cancelled |-> FALSE, used |-> TRUE]
FreeEmits == {k \in Slots : emits[k].st = "free"}
FreeEvents == {e \in Slots : ~events[e].used}
Min(S) == CHOOSE x \in S : \A y \in S : x <= y

\* an emit's locals die once it has returned and none of its tasks is left in the
\* pool; an event object dies with the last emit that holds it
ReclaimEmits(em) ==
    [k \in Slots |->
        IF em[k].st = "returned" /\ \A n \in 1..Len(em[k].log) : em[k].log[n].st = "done"
        THEN FreeEmit ELSE em[k]]
ReclaimEvents(em, ev) ==
    [e \in Slots |->
        IF \E k \in Slots : em[k].st # "free" /\ em[k].ev = e THEN ev[e] ELSE FreeEvent]
\* an entry of an emit's dispatch log, one per iteration that dispatched a ref:
\* st "queued" / "running" / "done", th the thread that runs fn, act what fn did,
\* seen the value of event.cancelled when the ref was dispatched, late its value
\* when fn started
LogEntry(f, s, t, c, l) ==
    [fn |-> f, st |-> s, th |-> t, act |-> "none", seen |-> c, late |-> l]

\* ------------------------------------------------------------- initial state
BusInit ==
    /\ handlers = [ty \in EventTypes |-> <<>>]
    /\ lockOwner = NoThread
    /\ lockCount = 0
    /\ events = [e \in Slots |-> FreeEvent]
    /\ emits = [k \in Slots |-> FreeEmit]
    /\ stack = [t \in Threads |-> <<>>]
    /\ poolQueue = <<>>

\* ------------------------------------------------------------- EventBus.on
\* a lock that is kept after the block (the dispatch would run under it)
ReleasedNever == <<lockOwner, lockCount>>

\* the lock as it is left by the end of a "with self._lock:" block
Released == IF lockCount = 1 THEN <<NoThread, 0>> ELSE <<lockOwner, lockCount - 1>>

\* the handler table after the decorator of bus.on(ty, background=b, priority=p)
\* ran its "with self._lock:" block
Subscribed(ty, b, p) ==
    [handlers EXCEPT ![ty] = Append(@, HandlerRef(<<ty, Len(@) + 1>>, b, p))]

\* a caller thread runs bus.on(ty, background=b, priority=p)(fn): the block under
\* the lock is entered when the lock can be acquired and is left at once
On(t, ty, b, p) ==
    /\ t \in Callers
    /\ ~Busy(t)
    /\ Appended < MaxSubs
    /\ CanAcquire(t)
    /\ handlers' = Subscribed(ty, b, p)
    /\ UNCHANGED <<lockOwner, lockCount, events, emits, stack, poolQueue>>
    /\ UNCHANGED notBus

\* "with self._lock:" of emit: blocks while another thread owns the lock
LockAcquire(t) ==
    /\ Busy(t)
    /\ Top(t).op = "emit"
    /\ Top(t).pc = "acquire"
    /\ CanAcquire(t)
    /\ lockOwner' = t
    /\ lockCount' = lockCount + 1
    /\ stack' = SetTopPc(t, "locked")
    /\ UNCHANGED <<handlers, events, emits, poolQueue>>
    /\ UNCHANGED notBus

\* ------------------------------------------------------------- EventBus.emit
\* a caller thread enters bus.emit(event) with a new event object of class ty
EmitNew(t, ty) ==
    /\ t \in Callers
    /\ ~Busy(t)
    /\ FreeEmits # {}
    /\ events' = [events EXCEPT ![Min(FreeEvents)] = NewEvent(ty)]
    /\ emits' = [emits EXCEPT ![Min(FreeEmits)] = EmitRec(Min(FreeEvents), t, ty)]
    /\ stack' = Push(t, EmitFrame(Min(FreeEmits)))
    /\ UNCHANGED <<handlers, lockOwner, lockCount, poolQueue>>
    /\ UNCHANGED notBus

\* a table that is not keyed by the event's class: every handler of the bus
HandlersForAll(ty) == handlers["A"] \o handlers["B"]

\* self._handlers.get(type(event), []): the list kept under the event's class
HandlersFor(ty) == handlers[ty]

\* refs = list(self._handlers.get(type(event), [])); leave the lock; refs.sort(...)
EmitSnapshot(t) ==
    /\ Busy(t)
    /\ Top(t).op = "emit"
    /\ Top(t).pc = "locked"
    /\ LET k == Top(t).k
           ty == events[emits[k].ev].type
       IN emits' = [emits EXCEPT ![k].refs = SortRefs(HandlersFor(ty)),
                                 ![k].snapped = TRUE,
                                 ![k].atSnap = Len(handlers[ty])]
    /\ lockOwner' = Released[1]
    /\ lockCount' = Released[2]
    /\ stack' = SetTopPc(t, "loop")
    /\ UNCHANGED <<handlers, events, poolQueue>>
    /\ UNCHANGED notBus

\* the loop walking the handler list itself instead of a copy of it
RefsOfLive(k) == SortRefs(handlers[events[emits[k].ev].type])

\* the list "for ref in refs:" walks: the copy made under the lock
RefsOf(k) == emits[k].refs

\* the loop without its check of event.cancelled
StopDispatchNoCancel(k, n) == n > Len(RefsOf(k))

\* the loop is over, or "if getattr(event, 'cancelled', False): return"
StopDispatch(k, n) == n > Len(RefsOf(k)) \/ Cancelled(emits[k].ev)

\* an emit that ignores ref.background and calls every handler itself
DispatchModeInlineOnly(ref) == "inline"

\* how emit dispatches a ref: "submit" (core.threading.submit) or "inline"
DispatchMode(ref) == IF ref.background THEN "submit" ELSE "inline"

\* the workers of the pool that are not running a task
IdleWorkers == {w \in Workers : ~Busy(w)}

\* a pool without a queue: the task is dropped when every worker is busy
SubmittedIfIdle(q, k, n) == IF IdleWorkers = {} THEN q ELSE Append(q, <<k, n>>)

\* a submit that would put the task in front of the tasks already waiting
SubmittedFirst(q, k, n) == <<<<k, n>>>> \o q

\* the pool queue after core.threading.submit(self._safe_call, ref.fn, event): the
\* executor puts the task behind the tasks already waiting
Submitted(q, k, n) == Append(q, <<k, n>>)

\* one iteration of "for ref in refs:", or the end of the loop
EmitDispatch(t) ==
    /\ Busy(t)
    /\ Top(t).op = "emit"
    /\ Top(t).pc = "loop"
    /\ LET k == Top(t).k
           n == Len(emits[k].log) + 1
           c == Cancelled(emits[k].ev)
       IN IF StopDispatch(k, n)
          THEN /\ emits' = ReclaimEmits([emits EXCEPT ![k].st = "returned"])
               /\ events' = ReclaimEvents(emits', events)
               /\ stack' = Pop(t)
               /\ UNCHANGED poolQueue
          ELSE IF DispatchMode(RefsOf(k)[n]) = "submit"
          THEN /\ emits' = [emits EXCEPT ![k].log =
                                Append(@, LogEntry(RefsOf(k)[n].fn, "queued", NoThread, c, FALSE))]
               /\ poolQueue' = Submitted(poolQueue, k, n)
               /\ UNCHANGED <<stack, events>>
          ELSE /\ emits' = [emits EXCEPT ![k].log =
                                Append(@, LogEntry(RefsOf(k)[n].fn, "running", t, c, c))]
               /\ stack' = Push(t, CallFrame(k, n))
               /\ UNCHANGED <<poolQueue, events>>
    /\ UNCHANGED <<handlers, lockOwner, lockCount>>
    /\ UNCHANGED notBus

\* ------------------------------------------------------------- the worker pool
\* a _safe_call that would return at once for a cancelled event
SafeCallRunsUnlessCancelled(e) == ~events[e].cancelled

\* _safe_call(fn, event) calls fn(event) whatever the state of the event
SafeCallRuns(e) == TRUE

\* a free worker takes the oldest task of the queue and runs _safe_call(fn, event);
\* idle workers are interchangeable, so one fixed idle worker is the one that wakes
WorkerTake(w) ==
    /\ poolQueue # <<>>
    /\ IdleWorkers # {}
    /\ w = CHOOSE x \in IdleWorkers : TRUE
    /\ LET k == Head(poolQueue)[1]
           n == Head(poolQueue)[2]
       IN IF SafeCallRuns(emits[k].ev)
          THEN /\ emits' = [emits EXCEPT ![k].log[n] =
                                [@ EXCEPT !.st = "running", !.th = w,
                                          !.late = Cancelled(emits[k].ev)]]
               /\ stack' = Push(w, CallFrame(k, n))
          ELSE /\ emits' = [emits EXCEPT ![k].log[n].st = "skipped"]
               /\ UNCHANGED stack
    /\ poolQueue' = Tail(poolQueue)
    /\ UNCHANGED <<handlers, lockOwner, lockCount, events>>
    /\ UNCHANGED notBus

\* ------------------------------------------------------------- EventBus._safe_call
InCall(t) == Busy(t) /\ Top(t).op = "call"
EmitsOnStack(t) == {stack[t][n].k : n \in {m \in 1..Len(stack[t]) : stack[t][m].op = "emit"}}

\* the log after the handler of the top frame of t ended, having done `act`
CallDone(t, act, s) ==
    [emits EXCEPT ![Top(t).k].log[Top(t).i] = [@ EXCEPT !.st = s, !.act = act]]

\* _safe_call ends: it returns to its caller (the emit loop or the pool worker), or,
\* were the exception to leave it, every emit frame below is unwound by it
EndCall(t, act, raised, ev) ==
    IF SafeCallOutcome(raised) = "raised"
    THEN /\ emits' = [k \in Slots |->
                        IF k \in EmitsOnStack(t)
                        THEN [CallDone(t, act, "escaped")[k] EXCEPT !.st = "raised"]
                        ELSE CallDone(t, act, "escaped")[k]]
         /\ events' = ev
         /\ stack' = [stack EXCEPT ![t] = <<>>]
    ELSE /\ emits' = ReclaimEmits(CallDone(t, act, "done"))
         /\ events' = ReclaimEvents(emits', ev)
         /\ stack' = Pop(t)

\* fn(event) returns without touching the event or the bus
HandlerOk(t) ==
    /\ InCall(t)
    /\ Top(t).pc = "body"
    /\ EndCall(t, "ok", FALSE, events)
    /\ UNCHANGED <<handlers, lockOwner, lockCount, poolQueue>>
    /\ UNCHANGED notBus

\* fn(event) sets event.cancelled = True (Cancellable.cancel) and returns
HandlerCancel(t) ==
    /\ InCall(t)
    /\ Top(t).pc = "body"
    /\ EndCall(t, "cancel", FALSE, [events EXCEPT ![emits[Top(t).k].ev].cancelled = TRUE])
    /\ UNCHANGED <<handlers, lockOwner, lockCount, poolQueue>>
    /\ UNCHANGED notBus

\* fn(event) raises an Exception
HandlerRaise(t) ==
    /\ InCall(t)
    /\ Top(t).pc = "body"
    /\ EndCall(t, "raise", TRUE, events)
    /\ UNCHANGED <<handlers, lockOwner, lockCount, poolQueue>>
    /\ UNCHANGED notBus

\* fn(event) calls bus.on(ty, background=b, priority=p)(g) and returns
HandlerSubscribe(t, ty, b, p) ==
    /\ InCall(t)
    /\ Top(t).pc = "body"
    /\ Appended < MaxSubs
    /\ CanAcquire(t)
    /\ handlers' = Subscribed(ty, b, p)
    /\ EndCall(t, "ok", FALSE, events)
    /\ UNCHANGED <<lockOwner, lockCount, poolQueue>>
    /\ UNCHANGED notBus

\* fn(event) calls bus.emit(...) from inside the handler, with a new event of class ty
HandlerEmitNew(t, ty) ==
    /\ InCall(t)
    /\ Top(t).pc = "body"
    /\ FreeEmits # {}
    /\ events' = [events EXCEPT ![Min(FreeEvents)] = NewEvent(ty)]
    /\ emits' = [emits EXCEPT ![Min(FreeEmits)] = EmitRec(Min(FreeEvents), t, ty)]
    /\ stack' = [stack EXCEPT ![t] =
                    Append(SetTopPc(t, "after")[t], EmitFrame(Min(FreeEmits)))]
    /\ UNCHANGED <<handlers, lockOwner, lockCount, poolQueue>>
    /\ UNCHANGED notBus

\* the nested bus call returned; fn(event) returns
HandlerReturn(t) ==
    /\ InCall(t)
    /\ Top(t).pc = "after"
    /\ EndCall(t, "ok", FALSE, events)
    /\ UNCHANGED <<handlers, lockOwner, lockCount, poolQueue>>
    /\ UNCHANGED notBus

\* ------------------------------------------------------------- run_on_ui_thread
MTop(t) == mStack[t][Len(mStack[t])]
MBusy(t) == Len(mStack[t]) > 0
MPush(t, f) == [mStack EXCEPT ![t] = Append(@, f)]
MPop(t) == [mStack EXCEPT ![t] = SubSeq(@, 1, Len(@) - 1)]
MSetTopPc(t, p) == [mStack EXCEPT ![t][Len(mStack[t])].pc = p]

\* frames: op "rout" (a run_on_ui_thread call), "func" (the callable of call c running,
\* how "sync": called in place, "slot": called by _MainThreadInvoker._run)
RoutFrame(c) == [op |-> "rout", c |-> c, pc |-> "start", how |-> "sync"]
FuncFrame(c, h) == [op |-> "func", c |-> c, pc |-> "body", how |-> h]

\* run_on_ui_thread(func, wait=w) entered by thread t, func giving v (or raising):
\* runs counts the executions of func, on is the thread of the last one, enq tells
\* whether the call was ever queued, fut is the state of its Future ("none" when no
\* Future was made), ret / retVal is what the call gave back to its caller;
\* enqAt is the position of the call in the order of the invoke.emit calls,
\* dlvAt is the position of the call in the order in which the event loop delivered
\* the queued signals to _run (0: not delivered), early tells that the Future was
\* cancelled before that delivery, esc that an exception left _run into the event loop
CallRec(t, w, v) ==
    [caller |-> t, wait |-> w, val |-> v, runs |-> 0, on |-> NoThread, enq |-> FALSE,
     fut |-> "none", futVal |-> "none", ret |-> "none", retVal |-> "none",
     enqAt |-> 0, dlvAt |-> 0, early |-> FALSE, esc |-> FALSE]

\* the number of invoke signals emitted so far
Enqueued == Cardinality({c \in 1..Len(mCalls) : mCalls[c].enq})

\* the state of the Future of call c ("none" before the call and when none was made)
FutState(c) == IF c <= Len(mCalls) THEN mCalls[c].fut ELSE "none"

\* the number of queued signals delivered to _run so far
Delivered == Cardinality({c \in 1..Len(mCalls) : mCalls[c].dlvAt > 0})

\* a hypothetical is_ui_thread without the thread comparison: never on the UI thread
IsUiThreadNever(t) == FALSE

\* is_ui_thread(): no application yet counts as the UI thread
IsUiThread(t) == ~mApp \/ t = UiThread

UiInit ==
    /\ mApp \in BOOLEAN
    /\ mCalls = <<>>
    /\ mQueue = <<>>
    /\ mStack = [t \in MThreads |-> <<>>]

\* a thread that is not inside the marshaler (the UI thread: in its event loop)
\* calls run_on_ui_thread(func, wait=w)
Marshal(t, w, v) ==
    /\ ~MBusy(t)
    /\ Len(mCalls) < MaxCalls
    /\ mCalls' = Append(mCalls, CallRec(t, w, v))
    /\ mStack' = MPush(t, RoutFrame(Len(mCalls) + 1))
    /\ UNCHANGED <<mApp, mQueue>>
    /\ UNCHANGED notUi

\* the running callable itself calls run_on_ui_thread(g, wait=w)
MarshalNested(t, w, v) ==
    /\ MBusy(t)
    /\ MTop(t).op = "func"
    /\ MTop(t).pc = "body"
    /\ Len(mCalls) < MaxCalls
    /\ mCalls' = Append(mCalls, CallRec(t, w, v))
    /\ mStack' = [mStack EXCEPT ![t] =
                     Append(MSetTopPc(t, "after")[t], RoutFrame(Len(mCalls) + 1))]
    /\ UNCHANGED <<mApp, mQueue>>
    /\ UNCHANGED notUi

\* "if is_ui_thread(): return func(*args, **kwargs)", else the Future is made and
\* invoke.emit(thunk, fut) queues the call for the UI thread (_get_invoker raises
\* RuntimeError when there is no application); with wait the caller goes on to
\* fut.result(), without it the Future is returned
RoutStart(t) ==
    /\ MBusy(t)
    /\ MTop(t).op = "rout"
    /\ MTop(t).pc = "start"
    /\ LET c == MTop(t).c IN
       IF IsUiThread(t)
       THEN /\ mStack' = [mStack EXCEPT ![t] =
                            Append(MSetTopPc(t, "sync")[t], FuncFrame(c, "sync"))]
            /\ UNCHANGED <<mCalls, mQueue>>
       ELSE IF ~mApp
       THEN /\ mCalls' = [mCalls EXCEPT ![c].ret = "raised", ![c].retVal = "RuntimeError"]
            /\ mStack' = MPop(t)
            /\ UNCHANGED mQueue
       ELSE /\ mQueue' = Append(mQueue, c)
            /\ IF mCalls[c].wait
               THEN /\ mCalls' = [mCalls EXCEPT ![c].enq = TRUE, ![c].fut = "pending",
                                                ![c].enqAt = Enqueued + 1]
                    /\ mStack' = MSetTopPc(t, "wait")
               ELSE /\ mCalls' = [mCalls EXCEPT ![c].enq = TRUE, ![c].fut = "pending",
                                                ![c].enqAt = Enqueued + 1,
                                                ![c].ret = "future"]
                    /\ mStack' = MPop(t)
    /\ UNCHANGED mApp
    /\ UNCHANGED notUi

\* fut.set_result / fut.set_exception on a Future in state f: a pending Future takes
\* the value; a cancelled one raises InvalidStateError (since Python 3.8), also out of
\* the "except Exception" branch of _run, whose set_exception raises it again, and keeps
\* its state; before 3.8 the value overwrote the cancelled state
SetOutcomes(f) == IF f = "cancelled" THEN {"invalid", "set"} ELSE {"set"}

\* the callable ends: called in place, its value or exception is what
\* run_on_ui_thread gives its caller; called by _run, it goes into the Future
\* (fut.set_result(fn()) / fut.set_exception(e))
FuncEnd(t) ==
    /\ MBusy(t)
    /\ MTop(t).op = "func"
    /\ LET c == MTop(t).c
           ok == mCalls[c].val # Raises
       IN IF MTop(t).how = "sync"
          THEN /\ mCalls' = [mCalls EXCEPT ![c].runs = @ + 1, ![c].on = t,
                                           ![c].ret = IF ok THEN "value" ELSE "raised",
                                           ![c].retVal = mCalls[c].val]
               /\ mStack' = [mStack EXCEPT ![t] = SubSeq(@, 1, Len(@) - 2)]
          ELSE /\ \E o \in SetOutcomes(mCalls[c].fut) :
                    mCalls' = [mCalls EXCEPT
                        ![c].runs = @ + 1, ![c].on = t,
                        ![c].fut = IF o = "set"
                                   THEN (IF ok THEN "result" ELSE "exception") ELSE @,
                        ![c].futVal = IF o = "set" THEN mCalls[c].val ELSE @,
                        ![c].esc = (o = "invalid")]
               /\ mStack' = MPop(t)
    /\ UNCHANGED <<mApp, mQueue>>
    /\ UNCHANGED notUi

\* a hypothetical event loop that delivers the newest queued signal first
QueueNextNewest(q) == Len(q)

\* Qt.QueuedConnection: the posted signals are delivered in the order of their emit
QueueNext(q) == 1

\* a hypothetical _run without the test of fut.cancelled()
SkipCancelledNever(c) == FALSE

\* "if fut.cancelled(): return"
SkipCancelled(c) == mCalls[c].fut = "cancelled"

\* the event loop of the UI thread delivers the oldest queued invoke signal:
\* _MainThreadInvoker._run(fn, fut) returns at once for a cancelled Future
InvokerRun(t) ==
    /\ t = UiThread
    /\ ~MBusy(t)
    /\ mQueue # <<>>
    /\ LET i == QueueNext(mQueue)
           c == mQueue[i]
       IN /\ mQueue' = SubSeq(mQueue, 1, i - 1) \o SubSeq(mQueue, i + 1, Len(mQueue))
          /\ mCalls' = [mCalls EXCEPT ![c].dlvAt = Delivered + 1]
          /\ IF SkipCancelled(c)
             THEN UNCHANGED mStack
             ELSE mStack' = MPush(t, FuncFrame(c, "slot"))
    /\ UNCHANGED mApp
    /\ UNCHANGED notUi

\* the holder of a Future returned with wait=False calls fut.cancel(): the Future was
\* made by Future() and is never marked running, so cancel() succeeds until
\* set_result / set_exception
FutCancel(c) ==
    /\ c \in 1..Len(mCalls)
    /\ mCalls[c].ret = "future"
    /\ mCalls[c].fut = "pending"
    /\ mCalls' = [mCalls EXCEPT ![c].fut = "cancelled", ![c].early = (mCalls[c].dlvAt = 0)]
    /\ UNCHANGED <<mApp, mQueue, mStack>>
    /\ UNCHANGED notUi

\* a hypothetical fut.result() that does not wait for the Future
FutDoneAtOnce(c) == TRUE

\* fut.result() blocks until the Future holds a result or an exception
FutDone(c) == mCalls[c].fut \in {"result", "exception"}

\* fut.result() of a waiting caller returns the value or raises the exception
WaitEnd(t) ==
    /\ MBusy(t)
    /\ MTop(t).op = "rout"
    /\ MTop(t).pc = "wait"
    /\ LET c == MTop(t).c IN
       /\ FutDone(c)
       /\ mCalls' = [mCalls EXCEPT ![c].ret = IF mCalls[c].fut = "result"
                                              THEN "value" ELSE "raised",
                                   ![c].retVal = mCalls[c].futVal]
    /\ mStack' = MPop(t)
    /\ UNCHANGED <<mApp, mQueue>>
    /\ UNCHANGED notUi

UiNext ==
    \/ \E t \in MThreads, w \in BOOLEAN, v \in Values \cup {Raises} : Marshal(t, w, v)
    \/ \E t \in MThreads, w \in BOOLEAN, v \in Values \cup {Raises} : MarshalNested(t, w, v)
    \/ \E t \in MThreads : RoutStart(t)
    \/ \E t \in MThreads : FuncEnd(t)
    \/ \E t \in MThreads : InvokerRun(t)
    \/ \E t \in MThreads : WaitEnd(t)
    \/ \E c \in 1..MaxCalls : FutCancel(c)

\* ------------------------------------------------------------- ThreadManager
\* submit(fn): the work item with its Future; runs counts the calls of fn, late
\* tells that a task had already failed when this one was submitted, full that
\* every worker was inside a task then, after that the worker that took it had run
\* a failing task before
TaskRec(k, l, f) ==
    [kind |-> k, fut |-> "pending", runs |-> 0, late |-> l, full |-> f, after |-> FALSE]

\* a worker thread: waiting on the queue ("idle") or inside a work item; failed
\* tells that a task it ran has raised
WorkerRec == [pc |-> "idle", task |-> 0, tmp |-> 0, failed |-> FALSE]

PoolInit ==
    /\ pTasks = <<>>
    /\ pQueue = <<>>
    /\ pWork = [w \in PoolWorkers |-> WorkerRec]
    /\ pCounter = 0
    /\ pLock = 0
    /\ pShut = [closed |-> FALSE, inflight |-> {}, queued |-> {}, rejects |-> 0]

\* every worker thread is inside a work item
AllBusy == \A w \in PoolWorkers : pWork[w].pc # "idle"

\* a hypothetical submit that waits for a free worker
CanSubmitWhenIdle == ~AllBusy

\* the work queue of the executor has no bound: putting an item never waits
CanSubmit == TRUE

\* a hypothetical submit that queues the task whatever the state of the executor
SubmitOutcomeQueues(closed) == "queued"

\* self._executor.submit(fn): an executor that was shut down raises RuntimeError
\* ("cannot schedule new futures after shutdown"), which submit lets through
SubmitOutcome(closed) == IF closed THEN "rejected" ELSE "queued"

\* ThreadManager.submit: self._executor.submit(fn) puts the work item on the queue
\* and returns its Future; nothing in it waits for a worker
Submit(t, k) ==
    /\ Len(pTasks) + pShut.rejects < MaxTasks
    /\ CanSubmit
    /\ IF SubmitOutcome(pShut.closed) = "rejected"
       THEN /\ pShut' = [pShut EXCEPT !.rejects = @ + 1]
            /\ UNCHANGED <<pTasks, pQueue>>
       ELSE /\ pTasks' = Append(pTasks,
                          TaskRec(k, \E i \in 1..Len(pTasks) : pTasks[i].fut = "exception",
                                  AllBusy))
            /\ pQueue' = Append(pQueue, Len(pTasks) + 1)
            /\ UNCHANGED pShut
    /\ UNCHANGED <<pWork, pCounter, pLock>>
    /\ UNCHANGED notPool

\* the ThreadPoolExecutor of the manager is shut down: by the interpreter at its
\* exit or by shutdown() of the executor, both with wait=True and without
\* cancelling; the workers go on until the queue is empty
PoolClose ==
    /\ ~pShut.closed
    /\ pShut' = [closed |-> TRUE,
                 inflight |-> {i \in 1..Len(pTasks) : pTasks[i].fut \in {"pending", "running"}},
                 queued |-> {pQueue[k] : k \in 1..Len(pQueue)},
                 rejects |-> 0]
    /\ UNCHANGED <<pTasks, pQueue, pWork, pCounter, pLock>>
    /\ UNCHANGED notPool

\* a hypothetical work queue that hands out the newest item
TakeIndexNewest(q) == Len(q)

\* the work queue is a FIFO queue
TakeIndex(q) == 1

\* a hypothetical queue whose get leaves the item in place
QueueAfterTakeKeeps(q) == q

\* queue.get removes the item it returns
QueueAfterTake(q) ==
    SubSeq(q, 1, TakeIndex(q) - 1) \o SubSeq(q, TakeIndex(q) + 1, Len(q))

\* a worker waiting on the queue gets the next work item and runs it:
\* the Future goes to running and fn is called
PoolTake(w) ==
    /\ pWork[w].pc = "idle"
    /\ pQueue # <<>>
    /\ LET i == pQueue[TakeIndex(pQueue)] IN
       /\ pTasks' = [pTasks EXCEPT ![i].fut = "running", ![i].runs = @ + 1,
                                   ![i].after = pWork[w].failed]
       /\ pWork' = [pWork EXCEPT ![w].pc = "run", ![w].task = i]
    /\ pQueue' = QueueAfterTake(pQueue)
    /\ UNCHANGED <<pCounter, pLock, pShut>>
    /\ UNCHANGED notPool

\* an "inc" task enters "with lock:" and reads the counter
TaskLock(w) ==
    /\ pWork[w].pc = "run"
    /\ pTasks[pWork[w].task].kind = "inc"
    /\ pLock = 0
    /\ pLock' = w
    /\ pWork' = [pWork EXCEPT ![w].pc = "locked", ![w].tmp = pCounter]
    /\ UNCHANGED <<pTasks, pQueue, pCounter, pShut>>
    /\ UNCHANGED notPool

\* it writes the counter back, one higher, leaves the lock and returns
TaskInc(w) ==
    /\ pWork[w].pc = "locked"
    /\ pCounter' = pWork[w].tmp + 1
    /\ pLock' = 0
    /\ pWork' = [pWork EXCEPT ![w].pc = "fin", ![w].tmp = 0]
    /\ UNCHANGED <<pTasks, pQueue, pShut>>
    /\ UNCHANGED notPool

\* an "exc" task raises
TaskRaise(w) ==
    /\ pWork[w].pc = "run"
    /\ pTasks[pWork[w].task].kind = "exc"
    /\ pWork' = [pWork EXCEPT ![w].pc = "fin"]
    /\ UNCHANGED <<pTasks, pQueue, pCounter, pLock, pShut>>
    /\ UNCHANGED notPool

\* a hypothetical worker loop that lets the exception of a task end the thread
AfterTaskDies(raised) == IF raised THEN "dead" ELSE "idle"

\* the worker loop of the executor catches what the work item raises and goes back
\* to the queue
AfterTask(raised) == "idle"

\* the work item ends: future.set_result(result) or future.set_exception(exc), and
\* the worker goes on with its loop
TaskDone(w) ==
    /\ pWork[w].pc = "fin"
    /\ LET i == pWork[w].task
           raised == pTasks[i].kind = "exc"
       IN /\ pTasks' = [pTasks EXCEPT ![i].fut = IF raised THEN "exception" ELSE "result"]
          /\ pWork' = [pWork EXCEPT ![w].pc = AfterTask(raised), ![w].task = 0,
                                    ![w].failed = @ \/ raised]
    /\ UNCHANGED <<pQueue, pCounter, pLock, pShut>>
    /\ UNCHANGED notPool

PoolNext ==
    \/ \E t \in Submitters, k \in TaskKinds : Submit(t, k)
    \/ \E w \in PoolWorkers : PoolTake(w)
    \/ \E w \in PoolWorkers : TaskLock(w)
    \/ \E w \in PoolWorkers : TaskInc(w)
    \/ \E w \in PoolWorkers : TaskRaise(w)
    \/ \E w \in PoolWorkers : TaskDone(w)

\* the pool with a shutdown of its executor
PoolCloseNext ==
    \/ \E t \in Submitters, k \in TaskKinds : Submit(t, k)
    \/ \E w \in PoolWorkers : PoolTake(w)
    \/ \E w \in PoolWorkers : TaskLock(w)
    \/ \E w \in PoolWorkers : TaskInc(w)
    \/ \E w \in PoolWorkers : TaskRaise(w)
    \/ \E w \in PoolWorkers : TaskDone(w)
    \/ PoolClose

\* ------------------------------------------------------------- install_hooks
\* a thread outside install_hooks and ServerLauncher.start
HookIdle == [op |-> "idle", bus |-> 0, orig |-> <<>>, todo |-> <<>>, name |-> "",
             bridge |-> 0, from |-> "", srv |-> 0, res |-> "", val |-> ""]

\* a bridge made by the factory for the launcher of server n: log / closed are the
\* listeners connected to serverLogOutput / serverClosed, each <<bus, name>>, regs
\* counts the register_bridge calls for it, ret tells that the start call returned,
\* wrapped what ServerLauncher.start was when that call was made, caps counts the
\* hook_bridge calls made by the wrappers of that call
BridgeRec(n, f) ==
    [name |-> n, log |-> <<>>, closed |-> <<>>, regs |-> 0, ret |-> FALSE, wrapped |-> f,
     caps |-> 0]

\* what serverLogOutput (a str signal) and serverClosed (an int signal) carry
Lines == {"l1", "l2"}
ExitCodes == {0, 1}

NoNote == [bridge |-> 0, chan |-> "", line |-> "", code |-> 0]

HookInit ==
    /\ hHost \in BOOLEAN
    /\ hStart = <<>>
    /\ hInstalled = [b \in Buses |-> FALSE]
    /\ hKeys = [b \in Buses |-> {}]
    /\ hBridges = <<>>
    /\ hRegistry = [n \in ServerNames |-> 0]
    /\ hThr = [t \in HookThreads |-> HookIdle]
    /\ hCalls = 0
    /\ hDone = [b \in Buses |-> 0]
    /\ hStarts = 0
    /\ hHooks = 0
    /\ hEmits = <<>>
    /\ hNotes = 0
    /\ hNote = NoNote
    /\ hSrv = <<>>

\* the host application finishes loading MCSL2Lib.ServerControllers.processCreator
HostLoad ==
    /\ ~hHost
    /\ hHost' = TRUE
    /\ UNCHANGED <<hStart, hInstalled, hKeys, hBridges, hRegistry, hThr, hCalls, hDone,
                   hStarts, hHooks, hEmits, hNotes, hNote, hSrv>>
    /\ UNCHANGED notHook

\* install_hooks on bus b: "with self._lock: if self._hooks_installed: return"
InstallEnter(t, b) ==
    /\ hThr[t].op = "idle"
    /\ hCalls < MaxInstalls
    /\ hCalls' = hCalls + 1
    /\ IF hInstalled[b]
       THEN /\ hDone' = [hDone EXCEPT ![b] = @ + 1]
            /\ UNCHANGED hThr
       ELSE /\ hThr' = [hThr EXCEPT ![t] = [HookIdle EXCEPT !.op = "lookup", !.bus = b]]
            /\ UNCHANGED hDone
    /\ UNCHANGED <<hHost, hStart, hInstalled, hKeys, hBridges, hRegistry, hStarts, hHooks, hEmits, hNotes, hNote, hSrv>>
    /\ UNCHANGED notHook

\* a hypothetical install_hooks without the test of the marker
HasMarkerNever(f) == FALSE

\* hasattr(original_start, "__mcsl2_api_hooked__"): every start_wrapper carries the
\* marker, the original function does not
HasMarker(f) == f # <<>>

\* a hypothetical install_hooks that takes the lookup for successful
HostFoundAlways == TRUE

\* the import of MCSL2Lib.ServerControllers.processCreator succeeds, ServerLauncher is
\* not None and its start is not None
HostFound == hHost

\* the import and the two getattr: without the host the call returns; a function
\* that carries the marker sets the flag of the bus and returns; else the call goes
\* on with the function it read
InstallLookup(t) ==
    /\ hThr[t].op = "lookup"
    /\ LET b == hThr[t].bus IN
       IF ~HostFound
       THEN /\ hDone' = [hDone EXCEPT ![b] = @ + 1]
            /\ hThr' = [hThr EXCEPT ![t] = HookIdle]
            /\ UNCHANGED hInstalled
       ELSE IF HasMarker(hStart)
       THEN /\ hInstalled' = [hInstalled EXCEPT ![b] = TRUE]
            /\ hDone' = [hDone EXCEPT ![b] = @ + 1]
            /\ hThr' = [hThr EXCEPT ![t] = HookIdle]
       ELSE /\ hThr' = [hThr EXCEPT ![t].op = "patch", ![t].orig = hStart]
            /\ UNCHANGED <<hInstalled, hDone>>
    /\ UNCHANGED <<hHost, hStart, hKeys, hBridges, hRegistry, hCalls, hStarts, hHooks, hEmits, hNotes, hNote, hSrv>>
    /\ UNCHANGED notHook

\* a hypothetical install_hooks that wraps what ServerLauncher.start is at the time
\* of the setattr
PatchTargetCurrent(t) == hStart

\* start_wrapper calls original_start, the function read by the getattr before
PatchTarget(t) == hThr[t].orig

\* setattr(start_wrapper, marker, True); setattr(ServerLauncher, "start", start_wrapper)
InstallPatch(t) ==
    /\ hThr[t].op = "patch"
    /\ hStart' = Append(PatchTarget(t), hThr[t].bus)
    /\ hThr' = [hThr EXCEPT ![t].op = "finish"]
    /\ UNCHANGED <<hHost, hInstalled, hKeys, hBridges, hRegistry, hCalls, hDone, hStarts, hHooks, hEmits, hNotes, hNote, hSrv>>
    /\ UNCHANGED notHook

\* "with self._lock: self._hooks_installed = True"
InstallFinish(t) ==
    /\ hThr[t].op = "finish"
    /\ hInstalled' = [hInstalled EXCEPT ![hThr[t].bus] = TRUE]
    /\ hDone' = [hDone EXCEPT ![hThr[t].bus] = @ + 1]
    /\ hThr' = [hThr EXCEPT ![t] = HookIdle]
    /\ UNCHANGED <<hHost, hStart, hKeys, hBridges, hRegistry, hCalls, hStarts, hHooks, hEmits, hNotes, hNote, hSrv>>
    /\ UNCHANGED notHook

\* a hypothetical start_wrapper that captures every bridge, named or not
CapturesAnyName(n, r) == r = "bridge"

\* start_wrapper: hook_bridge is called only for a named launcher and a result that
\* is neither None nor the EULA object
Captures(n, r) == n # "" /\ r = "bridge"

\* the host calls ServerLauncher(...).start() for server n: the original function
\* runs and gives r; every wrapper around it then goes through its capture path,
\* the innermost first
StartCall(t, n, r) ==
    /\ hThr[t].op = "idle"
    /\ hHost
    /\ hStarts < MaxStarts
    /\ hStarts' = hStarts + 1
    /\ hBridges' = IF r = "bridge" THEN Append(hBridges, BridgeRec(n, hStart)) ELSE hBridges
    /\ hThr' = [hThr EXCEPT ![t] =
                   [HookIdle EXCEPT !.op = "start", !.name = n, !.res = r,
                                    !.bridge = IF r = "bridge" THEN Len(hBridges) + 1 ELSE 0,
                                    !.orig = hStart,
                                    !.todo = IF Captures(n, r) THEN hStart ELSE <<>>]]
    /\ UNCHANGED <<hHost, hStart, hInstalled, hKeys, hRegistry, hCalls, hDone, hHooks, hEmits, hNotes, hNote, hSrv>>
    /\ UNCHANGED notHook

\* a collaborator that holds a bridge calls bus.hook_bridge(bridge, server_name=n)
\* itself, as ServerAdapter.start_server does with the result of start(); the bridge
\* is one the factory made or one it got elsewhere (h one above the known ones)
DirectHook(t, b, n, h) ==
    /\ hThr[t].op = "idle"
    /\ hHooks < MaxHooks
    /\ h \in 1..(Len(hBridges) + 1)
    /\ hHooks' = hHooks + 1
    /\ hBridges' = IF h > Len(hBridges) THEN Append(hBridges, BridgeRec("", <<>>))
                   ELSE hBridges
    /\ hThr' = [hThr EXCEPT ![t] =
                   [HookIdle EXCEPT !.op = "direct", !.bus = b, !.name = n, !.bridge = h,
                                    !.todo = <<b>>]]
    /\ UNCHANGED <<hHost, hStart, hInstalled, hKeys, hRegistry, hCalls, hDone, hStarts,
                   hEmits, hNotes, hNote, hSrv>>
    /\ UNCHANGED notHook

\* a hypothetical hook_bridge that does not look the key up
HookedAlreadyNever(b, key) == FALSE

\* "if self._bridge_hooks.get(key): return"
HookedAlready(b, key) == key \in hKeys[b]

\* hook_bridge, called by a wrapper or by a collaborator: "with self._lock: if
\* self._bridge_hooks.get(key): return; self._bridge_hooks[key] = True"
HookCheck(t) ==
    /\ hThr[t].op \in {"start", "direct"}
    /\ hThr[t].todo # <<>>
    /\ LET b == Head(hThr[t].todo)
           key == <<hThr[t].name, hThr[t].bridge>>
       IN /\ IF HookedAlready(b, key)
             THEN /\ hThr' = [hThr EXCEPT ![t].todo = Tail(@)]
                  /\ UNCHANGED hKeys
             ELSE /\ hKeys' = [hKeys EXCEPT ![b] = @ \cup {key}]
                  /\ hThr' = [hThr EXCEPT ![t].op = "connLog", ![t].from = hThr[t].op]
          /\ hBridges' = IF hThr[t].op = "start"
                         THEN [hBridges EXCEPT ![hThr[t].bridge].caps = @ + 1]
                         ELSE hBridges
    /\ UNCHANGED <<hHost, hStart, hInstalled, hRegistry, hCalls, hDone, hStarts, hHooks,
                   hEmits, hNotes, hNote, hSrv>>
    /\ UNCHANGED notHook

\* bridge.serverLogOutput.connect(_on_log); for None (bridge 0) the attribute
\* lookup raises and the except passes
HookConnectLog(t) ==
    /\ hThr[t].op = "connLog"
    /\ hBridges' = IF hThr[t].bridge = 0 THEN hBridges
                   ELSE [hBridges EXCEPT
                       ![hThr[t].bridge].log = Append(@, <<Head(hThr[t].todo), hThr[t].name>>)]
    /\ hThr' = [hThr EXCEPT ![t].op = "connClosed"]
    /\ UNCHANGED <<hHost, hStart, hInstalled, hKeys, hRegistry, hCalls, hDone, hStarts,
                   hHooks, hEmits, hNotes, hNote, hSrv>>
    /\ UNCHANGED notHook

\* bridge.serverClosed.connect(_on_closed)
HookConnectClosed(t) ==
    /\ hThr[t].op = "connClosed"
    /\ hBridges' = IF hThr[t].bridge = 0 THEN hBridges
                   ELSE [hBridges EXCEPT
                       ![hThr[t].bridge].closed = Append(@, <<Head(hThr[t].todo), hThr[t].name>>)]
    /\ hThr' = [hThr EXCEPT ![t].op = "register"]
    /\ UNCHANGED <<hHost, hStart, hInstalled, hKeys, hRegistry, hCalls, hDone, hStarts,
                   hHooks, hEmits, hNotes, hNote, hSrv>>
    /\ UNCHANGED notHook

\* APICore().register_bridge(server_name=server_name, bridge=bridge), the last
\* statement of hook_bridge
HookRegister(t) ==
    /\ hThr[t].op = "register"
    /\ hBridges' = IF hThr[t].bridge = 0 THEN hBridges
                   ELSE [hBridges EXCEPT ![hThr[t].bridge].regs = @ + 1]
    /\ hRegistry' = [hRegistry EXCEPT ![hThr[t].name] = hThr[t].bridge]
    /\ hThr' = [hThr EXCEPT ![t].op = hThr[t].from, ![t].todo = Tail(@)]
    /\ UNCHANGED <<hHost, hStart, hInstalled, hKeys, hCalls, hDone, hStarts, hHooks,
                   hEmits, hNotes, hNote, hSrv>>
    /\ UNCHANGED notHook

\* the hook_bridge call of the collaborator returns
DirectReturn(t) ==
    /\ hThr[t].op = "direct"
    /\ hThr[t].srv = 0
    /\ hThr[t].todo = <<>>
    /\ hThr' = [hThr EXCEPT ![t] = HookIdle]
    /\ UNCHANGED <<hHost, hStart, hInstalled, hKeys, hBridges, hRegistry, hCalls, hDone,
                   hStarts, hHooks, hEmits, hNotes, hNote, hSrv>>
    /\ UNCHANGED notHook

\* the outermost wrapper returns the result of the original function
StartReturn(t) ==
    /\ hThr[t].op = "start"
    /\ hThr[t].srv = 0
    /\ hThr[t].todo = <<>>
    /\ hBridges' = IF hThr[t].bridge # 0
                   THEN [hBridges EXCEPT ![hThr[t].bridge].ret = TRUE] ELSE hBridges
    /\ hThr' = [hThr EXCEPT ![t] = [HookIdle EXCEPT !.val = hThr[t].res]]
    /\ UNCHANGED <<hHost, hStart, hInstalled, hKeys, hRegistry, hCalls, hDone, hStarts, hHooks, hEmits, hNotes, hNote, hSrv>>
    /\ UNCHANGED notHook

\* a wrapper whose capture path is not inside a try block
CaptureOutcomeNoCatch(raised) == IF raised THEN "raised" ELSE "returned"

\* "try: ... except Exception: pass" around the capture path of start_wrapper: what
\* leaves the wrapper when the path raised
CaptureOutcome(raised) == "returned"

\* the capture path of the wrapper that is next raises before hook_bridge has
\* recorded the pair: the lookup of the server name, the import of _MinecraftEULA
\* or the call of hook_bridge fails. The except clause passes and the wrapper goes
\* on to "return result"
CaptureFails(t) ==
    /\ hThr[t].op = "start"
    /\ hThr[t].srv = 0
    /\ hThr[t].todo # <<>>
    /\ hThr' = IF CaptureOutcome(TRUE) = "raised"
               THEN [hThr EXCEPT ![t] = [HookIdle EXCEPT !.val = "raised"]]
               ELSE [hThr EXCEPT ![t].todo = Tail(@)]
    /\ UNCHANGED <<hHost, hStart, hInstalled, hKeys, hBridges, hRegistry, hCalls, hDone,
                   hStarts, hHooks, hEmits, hNotes, hNote, hSrv>>
    /\ UNCHANGED notHook

\* ------------------------------------------------ ServerAdapter.start_server
\* the bus of the core the adapter works with (core.events)
SrvBus == 1

\* ServerLauncher.start after self._core.events.install_hooks() has run to its end
\* with the host loaded: wrapped by SrvBus unless the bus was flagged or the
\* function carried the marker already
StartAfterInstall ==
    IF hInstalled[SrvBus] \/ HasMarker(hStart) THEN hStart ELSE Append(hStart, SrvBus)

\* start_server(n): the name is looked up in readGlobalServerConfig(); when it is
\* not there the call returns False; else install_hooks() runs and launcher.start()
\* is called through run_on_ui_thread(_start_on_ui, wait=True), the original
\* function giving r
SrvCall(t, n, found, r) ==
    /\ hThr[t].op = "idle"
    /\ hHost
    /\ Len(hSrv) < MaxSrv
    /\ hSrv' = Append(hSrv, [name |-> n, found |-> found, res |-> r,
                             bridge |-> IF found /\ r = "bridge" THEN Len(hBridges) + 1 ELSE 0,
                             ret |-> IF found THEN "pending" ELSE "false", reg |-> 0])
    /\ IF found
       THEN /\ hStart' = StartAfterInstall
            /\ hInstalled' = [hInstalled EXCEPT ![SrvBus] = TRUE]
            /\ hCalls' = hCalls + 1
            /\ hDone' = [hDone EXCEPT ![SrvBus] = @ + 1]
            /\ hBridges' = IF r = "bridge"
                           THEN Append(hBridges, BridgeRec(n, StartAfterInstall))
                           ELSE hBridges
            /\ hThr' = [hThr EXCEPT ![t] =
                   [HookIdle EXCEPT !.op = "start", !.bus = SrvBus, !.name = n, !.res = r,
                                    !.bridge = IF r = "bridge" THEN Len(hBridges) + 1 ELSE 0,
                                    !.orig = StartAfterInstall,
                                    !.todo = IF Captures(n, r) THEN StartAfterInstall ELSE <<>>,
                                    !.srv = Len(hSrv) + 1]]
       ELSE UNCHANGED <<hStart, hInstalled, hCalls, hDone, hBridges, hThr>>
    /\ UNCHANGED <<hHost, hKeys, hRegistry, hStarts, hHooks, hEmits, hNotes, hNote>>
    /\ UNCHANGED notHook

\* a hypothetical start_server that takes None for a failed start as well
SrvRefusesNoneToo(r) == r \in {"eula", "none"}

\* "if isinstance(result, _MinecraftEULA): ... return False"
SrvRefuses(r) == r = "eula"

\* launcher.start() has returned to start_server: for the EULA object the call
\* returns False, for anything else it goes on with
\* self._core.events.hook_bridge(bridge, server_name=server_name)
SrvStartReturn(t) ==
    /\ hThr[t].op = "start"
    /\ hThr[t].srv # 0
    /\ hThr[t].todo = <<>>
    /\ hBridges' = IF hThr[t].bridge # 0
                   THEN [hBridges EXCEPT ![hThr[t].bridge].ret = TRUE] ELSE hBridges
    /\ IF SrvRefuses(hSrv[hThr[t].srv].res)
       THEN /\ hSrv' = [hSrv EXCEPT ![hThr[t].srv].ret = "false"]
            /\ hThr' = [hThr EXCEPT ![t] = HookIdle]
       ELSE /\ hThr' = [hThr EXCEPT ![t].op = "direct", ![t].todo = <<SrvBus>>]
            /\ UNCHANGED hSrv
    /\ UNCHANGED <<hHost, hStart, hInstalled, hKeys, hRegistry, hCalls, hDone, hStarts,
                   hHooks, hEmits, hNotes, hNote>>
    /\ UNCHANGED notHook

\* hook_bridge has returned to start_server: "return True"; reg is what
\* get_bridge(server_name) gives at that moment
SrvReturn(t) ==
    /\ hThr[t].op = "direct"
    /\ hThr[t].srv # 0
    /\ hThr[t].todo = <<>>
    /\ hSrv' = [hSrv EXCEPT ![hThr[t].srv].ret = "true",
                            ![hThr[t].srv].reg = hRegistry[hThr[t].name]]
    /\ hThr' = [hThr EXCEPT ![t] = HookIdle]
    /\ UNCHANGED <<hHost, hStart, hInstalled, hKeys, hBridges, hRegistry, hCalls, hDone,
                   hStarts, hHooks, hEmits, hNotes, hNote>>
    /\ UNCHANGED notHook

SrvNext ==
    \/ \E t \in HookThreads, n \in ServerNames, found \in BOOLEAN, r \in StartResults :
          SrvCall(t, n, found, r)
    \/ \E t \in HookThreads : HookCheck(t)
    \/ \E t \in HookThreads : HookConnectLog(t)
    \/ \E t \in HookThreads : HookConnectClosed(t)
    \/ \E t \in HookThreads : HookRegister(t)
    \/ \E t \in HookThreads : SrvStartReturn(t)
    \/ \E t \in HookThreads : SrvReturn(t)

\* str(line) of a str
StrOf(line) == line

\* int(exit_code) of an int
IntOf(code) == code

\* a hypothetical _on_log that names the server of the launcher of the bridge
LogEventOfLauncher(l, h, line) ==
    [bus |-> l[1], type |-> "LogEvent", server_name |-> hBridges[h].name,
     content |-> StrOf(line)]

\* _on_log of the listener l = <<bus, server_name>>:
\* self.emit(LogEvent(server_name=server_name, content=str(line), ts=...))
LogEventOf(l, h, line) ==
    [bus |-> l[1], type |-> "LogEvent", server_name |-> l[2], content |-> StrOf(line)]

\* _on_closed of the listener l:
\* self.emit(ServerExitEvent(server_name=server_name, exit_code=int(exit_code), ts=...))
ExitEventOf(l, h, code) ==
    [bus |-> l[1], type |-> "ServerExitEvent", server_name |-> l[2],
     exit_code |-> IntOf(code)]

\* bridge h sends serverLogOutput(line): Qt calls the connected listeners in the
\* order of their connection, each one emits its event
NotifyLog(h, line) ==
    /\ hNotes < MaxNotes
    /\ h \in 1..Len(hBridges)
    /\ hNotes' = hNotes + 1
    /\ hNote' = [bridge |-> h, chan |-> "log", line |-> line, code |-> 0]
    /\ hEmits' = [i \in 1..Len(hBridges[h].log) |-> LogEventOf(hBridges[h].log[i], h, line)]
    /\ UNCHANGED <<hHost, hStart, hInstalled, hKeys, hBridges, hRegistry, hThr, hCalls,
                   hDone, hStarts, hHooks, hSrv>>
    /\ UNCHANGED notHook

\* a hypothetical _on_closed that also drops the bridge from APICore._bridges
RegistryAfterCloseEvicts(h) == [n \in ServerNames |-> IF hRegistry[n] = h THEN 0 ELSE hRegistry[n]]

\* _on_closed only emits: APICore._bridges is not touched
RegistryAfterClose(h) == hRegistry

\* bridge h sends serverClosed(code) when its server process has ended
NotifyClosed(h, code) ==
    /\ hNotes < MaxNotes
    /\ h \in 1..Len(hBridges)
    /\ hNotes' = hNotes + 1
    /\ hNote' = [bridge |-> h, chan |-> "closed", line |-> "", code |-> code]
    /\ hEmits' = [i \in 1..Len(hBridges[h].closed) |->
                      ExitEventOf(hBridges[h].closed[i], h, code)]
    /\ hRegistry' = RegistryAfterClose(h)
    /\ UNCHANGED <<hHost, hStart, hInstalled, hKeys, hBridges, hThr, hCalls,
                   hDone, hStarts, hHooks, hSrv>>
    /\ UNCHANGED notHook

HookNext ==
    \/ HostLoad
    \/ \E t \in HookThreads, b \in Buses : InstallEnter(t, b)
    \/ \E t \in HookThreads : InstallLookup(t)
    \/ \E t \in HookThreads : InstallPatch(t)
    \/ \E t \in HookThreads : InstallFinish(t)
    \/ \E t \in HookThreads, n \in ServerNames, r \in StartResults : StartCall(t, n, r)
    \/ \E t \in HookThreads : HookCheck(t)
    \/ \E t \in HookThreads : HookConnectLog(t)
    \/ \E t \in HookThreads : HookConnectClosed(t)
    \/ \E t \in HookThreads : HookRegister(t)
    \/ \E t \in HookThreads : StartReturn(t)

\* hook_bridge and the signals of the bridges, in a host that is loaded and where
\* install_hooks has either not been called or has run once, on bus b
BridgeInit ==
    /\ hHost = TRUE
    /\ \E b \in Buses \cup {0} :
          /\ hStart = IF b = 0 THEN <<>> ELSE <<b>>
          /\ hInstalled = [c \in Buses |-> c = b]
          /\ hCalls = IF b = 0 THEN 0 ELSE 1
          /\ hDone = [c \in Buses |-> IF c = b THEN 1 ELSE 0]
    /\ hKeys = [b \in Buses |-> {}]
    /\ hBridges = <<>>
    /\ hRegistry = [n \in ServerNames |-> 0]
    /\ hThr = [t \in HookThreads |-> HookIdle]
    /\ hStarts = 0
    /\ hHooks = 0
    /\ hEmits = <<>>
    /\ hNotes = 0
    /\ hNote = NoNote
    /\ hSrv = <<>>

BridgeNext ==
    \/ \E t \in HookThreads, n \in ServerNames, r \in StartResults : StartCall(t, n, r)
    \/ \E t \in HookThreads, b \in Buses, n \in ServerNames, h \in 1..(MaxStarts + MaxHooks) :
          DirectHook(t, b, n, h)
    \/ \E t \in HookThreads : HookCheck(t)
    \/ \E t \in HookThreads : HookConnectLog(t)
    \/ \E t \in HookThreads : HookConnectClosed(t)
    \/ \E t \in HookThreads : HookRegister(t)
    \/ \E t \in HookThreads : StartReturn(t)
    \/ \E t \in HookThreads : DirectReturn(t)
    \/ \E h \in 1..(MaxStarts + MaxHooks), line \in Lines : NotifyLog(h, line)
    \/ \E h \in 1..(MaxStarts + MaxHooks), code \in ExitCodes : NotifyClosed(h, code)

\* ------------------------------------------------------------- APICore._bridges
\* str(server_name)
StrKey(name) == name[2]

RegKeys == {StrKey(name) : name \in RegNames}

RegIdle == [op |-> "idle", name |-> <<"str", "a">>, h |-> 0, res |-> 0]

RegInit ==
    /\ rBridges = [k \in RegKeys |-> 0]
    /\ rLock = NoThread
    /\ rThr = [t \in RegThreads |-> RegIdle]
    /\ rLast = [k \in RegKeys |-> 0]
    /\ rWritten = [k \in RegKeys |-> {}]
    /\ rOps = 0

\* thread t calls register_bridge(server_name=name, bridge=h) and gets to the with
RegisterCall(t, name, h) ==
    /\ rThr[t].op = "idle"
    /\ rOps < MaxRegOps
    /\ rOps' = rOps + 1
    /\ rThr' = [rThr EXCEPT ![t] = [op |-> "regAcq", name |-> name, h |-> h, res |-> 0]]
    /\ UNCHANGED <<rBridges, rLock, rLast, rWritten>>
    /\ UNCHANGED notReg

\* thread t calls get_bridge(server_name=name) and gets to the with
GetCall(t, name) ==
    /\ rThr[t].op = "idle"
    /\ rOps < MaxRegOps
    /\ rOps' = rOps + 1
    /\ rThr' = [rThr EXCEPT ![t] = [op |-> "getAcq", name |-> name, h |-> 0, res |-> 0]]
    /\ UNCHANGED <<rBridges, rLock, rLast, rWritten>>
    /\ UNCHANGED notReg

\* a hypothetical registry whose operations do not wait for the lock
BridgesLockFreeAlways == TRUE

\* _bridges_lock can be taken: no thread is inside a with block of it (the two
\* operations never nest, so the lock is never re-entered)
BridgesLockFree == rLock = NoThread

\* "with self._bridges_lock:" of either operation
RegAcquire(t) ==
    /\ rThr[t].op \in {"regAcq", "getAcq"}
    /\ BridgesLockFree
    /\ rLock' = t
    /\ rThr' = [rThr EXCEPT ![t].op = IF rThr[t].op = "regAcq" THEN "regWrite" ELSE "getRead"]
    /\ rLast' = IF rThr[t].op = "regAcq"
                THEN [rLast EXCEPT ![StrKey(rThr[t].name)] = rThr[t].h] ELSE rLast
    /\ UNCHANGED <<rBridges, rWritten, rOps>>
    /\ UNCHANGED notReg

\* a hypothetical register_bridge that keeps the bridge a name already has
BridgesAfterRegisterKeeps(k, h) == IF rBridges[k] = 0 THEN [rBridges EXCEPT ![k] = h] ELSE rBridges

\* self._bridges[str(server_name)] = bridge
BridgesAfterRegister(k, h) == [rBridges EXCEPT ![k] = h]

RegWrite(t) ==
    /\ rThr[t].op = "regWrite"
    /\ rBridges' = BridgesAfterRegister(StrKey(rThr[t].name), rThr[t].h)
    /\ rWritten' = [rWritten EXCEPT ![StrKey(rThr[t].name)] = @ \cup {rThr[t].h}]
    /\ rThr' = [rThr EXCEPT ![t].op = "release"]
    /\ UNCHANGED <<rLock, rLast, rOps>>
    /\ UNCHANGED notReg

\* self._bridges.get(str(server_name)): None for a key without entry
GetRead(t) ==
    /\ rThr[t].op = "getRead"
    /\ rThr' = [rThr EXCEPT ![t].op = "release", ![t].res = rBridges[StrKey(rThr[t].name)]]
    /\ UNCHANGED <<rBridges, rLock, rLast, rWritten, rOps>>
    /\ UNCHANGED notReg

\* the end of the with block; the call returns (get_bridge: what it read)
RegRelease(t) ==
    /\ rThr[t].op = "release"
    /\ rLock' = IF rLock = t THEN NoThread ELSE rLock
    /\ rThr' = [rThr EXCEPT ![t] = RegIdle]
    /\ UNCHANGED <<rBridges, rLast, rWritten, rOps>>
    /\ UNCHANGED notReg

RegNext ==
    \/ \E t \in RegThreads, name \in RegNames, h \in Handles : RegisterCall(t, name, h)
    \/ \E t \in RegThreads, name \in RegNames : GetCall(t, name)
    \/ \E t \in RegThreads : RegAcquire(t)
    \/ \E t \in RegThreads : RegWrite(t)
    \/ \E t \in RegThreads : GetRead(t)
    \/ \E t \in RegThreads : RegRelease(t)

\* ------------------------------------------------------------- APICore.__new__
\* a thread outside APICore(): whether it has the package, and what its last
\* APICore() call returned (0: no call yet)
CoreIdle == [pc |-> "idle", inst |-> 0, mod |-> FALSE, got |-> 0]

CoreInit ==
    /\ cImport = "no"
    /\ cInstance = 0
    /\ cMade = 0
    /\ cThr = [t \in CoreThreads |-> CoreIdle]
    /\ cGot = {}
    /\ cNews = 0

\* a hypothetical package whose __init__ does not build the core
ImportCallsCoreNever == FALSE

\* MCSL2_API/__init__.py ends its imports with "core = APICore()"
ImportCallsCore == TRUE

\* the first thread that imports MCSL2_API (or one of its modules, which imports the
\* package first) runs __init__.py under the import lock of the package, up to the
\* call APICore() of "core = APICore()"
ImportStart(t) ==
    /\ cImport = "no"
    /\ cThr[t].pc = "idle"
    /\ IF ImportCallsCore
       THEN /\ cImport' = t
            /\ cThr' = [cThr EXCEPT ![t].pc = "check"]
            /\ cNews' = cNews + 1
       ELSE /\ cImport' = "done"
            /\ UNCHANGED <<cThr, cNews>>
    /\ UNCHANGED <<cInstance, cMade, cGot>>
    /\ UNCHANGED notCore

\* "import MCSL2_API" (or "from MCSL2_API.core import APICore") of another thread:
\* it waits for the import lock of the package and returns once __init__.py has ended
ImportJoin(t) ==
    /\ cImport = "done"
    /\ cThr[t].pc = "idle"
    /\ ~cThr[t].mod
    /\ cThr' = [cThr EXCEPT ![t].mod = TRUE]
    /\ UNCHANGED <<cImport, cInstance, cMade, cGot, cNews>>
    /\ UNCHANGED notCore

\* a thread that has the package calls APICore()
NewCall(t) ==
    /\ cThr[t].mod
    /\ cThr[t].pc = "idle"
    /\ cNews < MaxNews
    /\ cNews' = cNews + 1
    /\ cThr' = [cThr EXCEPT ![t].pc = "check"]
    /\ UNCHANGED <<cImport, cInstance, cMade, cGot>>
    /\ UNCHANGED notCore

\* "if cls._instance is None:"
NewCheck(t) ==
    /\ cThr[t].pc = "check"
    /\ cThr' = [cThr EXCEPT ![t].pc = IF cInstance = 0 THEN "create" ELSE "return"]
    /\ UNCHANGED <<cImport, cInstance, cMade, cGot, cNews>>
    /\ UNCHANGED notCore

\* "inst = super().__new__(cls)" and the assignments that give it its registry, its
\* lock, its ThreadManager and its EventBus
NewCreate(t) ==
    /\ cThr[t].pc = "create"
    /\ cMade' = cMade + 1
    /\ cThr' = [cThr EXCEPT ![t].pc = "set", ![t].inst = cMade + 1]
    /\ UNCHANGED <<cImport, cInstance, cGot, cNews>>
    /\ UNCHANGED notCore

\* "cls._instance = inst"
NewSet(t) ==
    /\ cThr[t].pc = "set"
    /\ cInstance' = cThr[t].inst
    /\ cThr' = [cThr EXCEPT ![t].pc = "return"]
    /\ UNCHANGED <<cImport, cMade, cGot, cNews>>
    /\ UNCHANGED notCore

\* "return cls._instance"; for the importing thread this ends __init__.py
NewReturn(t) ==
    /\ cThr[t].pc = "return"
    /\ cGot' = cGot \cup {cInstance}
    /\ cThr' = [cThr EXCEPT ![t].pc = "idle", ![t].inst = 0, ![t].mod = TRUE,
                             ![t].got = cInstance]
    /\ cImport' = IF cImport = t THEN "done" ELSE cImport
    /\ UNCHANGED <<cInstance, cMade, cNews>>
    /\ UNCHANGED notCore

CoreNext ==
    \/ \E t \in CoreThreads : ImportStart(t)
    \/ \E t \in CoreThreads : ImportJoin(t)
    \/ \E t \in CoreThreads : NewCall(t)
    \/ \E t \in CoreThreads : NewCheck(t)
    \/ \E t \in CoreThreads : NewCreate(t)
    \/ \E t \in CoreThreads : NewSet(t)
    \/ \E t \in CoreThreads : NewReturn(t)

\* install_hooks and hook_bridge in a process where the host never gets loaded
NoHostNext ==
    \/ \E t \in HookThreads, b \in Buses : InstallEnter(t, b)
    \/ \E t \in HookThreads : InstallLookup(t)
    \/ \E t \in HookThreads, b \in Buses, n \in ServerNames, h \in 1..(MaxStarts + MaxHooks) :
          DirectHook(t, b, n, h)
    \/ \E t \in HookThreads : HookCheck(t)
    \/ \E t \in HookThreads : HookConnectLog(t)
    \/ \E t \in HookThreads : HookConnectClosed(t)
    \/ \E t \in HookThreads : HookRegister(t)
    \/ \E t \in HookThreads : DirectReturn(t)
    \/ \E h \in 1..(MaxStarts + MaxHooks), line \in Lines : NotifyLog(h, line)
    \/ \E h \in 1..(MaxStarts + MaxHooks), code \in ExitCodes : NotifyClosed(h, code)

\* ------------------------------------------------------------- Plugin.export and guard
LifeKinds == {"load", "enable", "disable"}
GuardKinds == LifeKinds \cup {"fn"}
MetaKinds == {"typed", "untyped"}
Sigs == {"zero", "one", "nosig"}
\* the values a guarded function returns; None is a value of its own
FnValues == {"v1", "None"}
RECURSIVE SeqsUpTo(_, _)
SeqsUpTo(S, n) ==
    IF n = 0 THEN {<<>>}
    ELSE SeqsUpTo(S, n - 1) \cup {Append(q, x) : q \in {r \in SeqsUpTo(S, n - 1) : Len(r) = n - 1}, x \in S}

PlugIdleCall ==
    [pc |-> "idle", kind |-> "", full |-> FALSE, given |-> FALSE, ai |-> FALSE,
     runs |-> 0, prov |-> "none", sink |-> "", note |-> "", aio |-> ""]
NoCall == [kind |-> "", full |-> FALSE, runs |-> 0, fn |-> "", ret |-> "",
           sink |-> "", note |-> "", aio |-> ""]

PlugInit ==
    /\ plDecl \in SeqsUpTo(MetaKinds, MaxMetas) \ {<<>>}
    /\ plSig \in Sigs
    /\ plTable = <<>>
    /\ plCall = PlugIdleCall
    /\ plKinds = <<>>
    /\ plLast = NoCall
    /\ plHits = -1

\* a plugin with one typed subscription and callbacks that take the context
PlugIdle == PlugInit /\ plDecl = <<"typed">> /\ plSig = "one"

\* the host calls a function wrapped by guard: the load, enable or disable function
\* Plugin.export registered (guard of src/safety.py), or another function, wrapped
\* by either guard, with or without interaction= and enable_ai_analyze
GuardCall(kind, full, given, ai) ==
    /\ plCall.pc = "idle"
    /\ Len(plKinds) < MaxLife
    /\ kind \in LifeKinds => ~full /\ ~given /\ ~ai
    /\ ~full => ~given /\ ~ai
    /\ plCall' = [PlugIdleCall EXCEPT
                    !.pc = IF kind = "fn" THEN "fn"
                           ELSE IF kind = "disable" THEN "lifecycle" ELSE "register",
                    !.kind = kind, !.full = full, !.given = given, !.ai = ai,
                    !.prov = IF given THEN "given" ELSE "none"]
    /\ UNCHANGED <<plDecl, plSig, plTable, plKinds, plLast, plHits>>
    /\ UNCHANGED notPlug

\* wrapped is left, the call c is over: fn returned the value fn or raised ("raise"),
\* wrapped returned ret or let an exception go ("raised")
Returned(c, fn, ret) ==
    /\ plKinds' = Append(plKinds, c.kind)
    /\ plLast' = [kind |-> c.kind, full |-> c.full, runs |-> c.runs, fn |-> fn,
                  ret |-> ret, sink |-> c.sink, note |-> c.note, aio |-> c.aio]
    /\ plCall' = PlugIdleCall

\* "return fn(*args, **kwargs)": fn returned v
FnReturn(v) ==
    /\ plCall.pc = "fn"
    /\ Returned(plCall, v, v)
    /\ UNCHANGED <<plDecl, plSig, plTable, plHits>>
    /\ UNCHANGED notPlug

\* fn raised an Exception: "except Exception as e:" is entered
FnRaise ==
    /\ plCall.pc = "fn"
    /\ plCall' = [plCall EXCEPT !.pc = "log"]
    /\ UNCHANGED <<plDecl, plSig, plTable, plKinds, plLast, plHits>>
    /\ UNCHANGED notPlug

\* _register_decorated_subscribers: bus.subscribe for each decorator from position i
\* on; bus.on appends a handler whatever the list holds, and the TypeError of a
\* decorator without an event class is swallowed
RECURSIVE Registered(_, _, _)
Registered(table, decl, i) ==
    IF i > Len(decl) THEN table
    ELSE Registered(IF decl[i] = "typed" THEN Append(table, i) ELSE table, decl, i + 1)

\* _load and _enable start with instance._register_decorated_subscribers(context)
Register ==
    /\ plCall.pc = "register"
    /\ plTable' = Registered(plTable, plDecl, 1)
    /\ plCall' = [plCall EXCEPT !.pc = "lifecycle"]
    /\ UNCHANGED <<plDecl, plSig, plKinds, plLast, plHits>>
    /\ UNCHANGED notPlug

BodyOutcomes == {"ok", "typeerror", "error"}

\* "except TypeError: fn(ctx)": where _call_lifecycle goes on after a TypeError of
\* its try block
AfterTypeError == "retry"

\* the try block of _call_lifecycle: inspect.signature(fn), then fn() or fn(ctx);
\* the body of the callback runs and ends with outcome o
Lifecycle(o) ==
    /\ plCall.pc = "lifecycle"
    /\ IF plSig = "nosig"
       THEN /\ o = "typeerror"
            /\ plCall' = [plCall EXCEPT !.pc = AfterTypeError]
            /\ UNCHANGED <<plKinds, plLast>>
       ELSE IF o = "ok"
       THEN Returned([plCall EXCEPT !.runs = @ + 1], "None", "None")
       ELSE /\ plCall' = [plCall EXCEPT !.runs = @ + 1,
                             !.pc = IF o = "typeerror" THEN AfterTypeError ELSE "log"]
            /\ UNCHANGED <<plKinds, plLast>>
    /\ UNCHANGED <<plDecl, plSig, plTable, plHits>>
    /\ UNCHANGED notPlug

\* the except clause of _call_lifecycle: fn(ctx) once more. A callback without a
\* parameter raises TypeError before its body runs; any other runs its body again,
\* and whatever it raises now leaves _call_lifecycle
Retry(o) ==
    /\ plCall.pc = "retry"
    /\ IF plSig = "zero"
       THEN /\ o = "typeerror"
            /\ plCall' = [plCall EXCEPT !.pc = "log"]
            /\ UNCHANGED <<plKinds, plLast>>
       ELSE IF o = "ok"
       THEN Returned([plCall EXCEPT !.runs = @ + 1], "None", "None")
       ELSE /\ plCall' = [plCall EXCEPT !.runs = @ + 1, !.pc = "log"]
            /\ UNCHANGED <<plKinds, plLast>>
    /\ UNCHANGED <<plDecl, plSig, plTable, plHits>>
    /\ UNCHANGED notPlug

LogSinks == {"logger", "print", "none"}

\* _log_error(plugin_label, e): MCSL2Logger, or print when the logger fails, or
\* nothing when print fails too; it always returns. The guard of src/safety.py
\* returns None after it, the guard of MCSL2_API/safety.py goes on
GuardLog(sink) ==
    /\ plCall.pc = "log"
    /\ IF plCall.full
       THEN /\ plCall' = [plCall EXCEPT !.pc = "provider", !.sink = sink]
            /\ UNCHANGED <<plKinds, plLast>>
       ELSE Returned([plCall EXCEPT !.sink = sink], "raise", "None")
    /\ UNCHANGED <<plDecl, plSig, plTable, plHits>>
    /\ UNCHANGED notPlug

\* the provider of the notification: interaction= when given, else
\* APICore().interaction, else a FluentInteraction when a QCoreApplication exists,
\* else None; each lookup is inside a try block of its own
GuardProvider(found) ==
    /\ plCall.pc = "provider"
    /\ found \in {"core", "fluent", "none"}
    /\ plCall' = [plCall EXCEPT !.pc = "notify",
                                !.prov = IF plCall.given THEN "given" ELSE found]
    /\ UNCHANGED <<plDecl, plSig, plTable, plKinds, plLast, plHits>>
    /\ UNCHANGED notPlug

\* a notification step without its try block
NotifyOutcomeNoCatch(raised) == IF raised THEN "raised" ELSE "returned"

\* "try: provider.notify(...) except Exception: pass": what leaves the step
NotifyOutcome(raised) == "returned"

\* provider.notify(tb, ...) when there is a provider; it returns or raises
GuardNotify(raised) ==
    /\ plCall.pc = "notify"
    /\ plCall.prov = "none" => ~raised
    /\ IF NotifyOutcome(raised) = "raised"
       THEN Returned([plCall EXCEPT !.note = "raised"], "raise", "raised")
       ELSE /\ plCall' = [plCall EXCEPT !.pc = "ai",
                             !.note = IF plCall.prov = "none" THEN "skipped"
                                      ELSE IF raised THEN "raised" ELSE "sent"]
            /\ UNCHANGED <<plKinds, plLast>>
    /\ UNCHANGED <<plDecl, plSig, plTable, plHits>>
    /\ UNCHANGED notPlug

AiOutcomes == {"off", "skipped", "submitted", "raised"}

\* "if enable_ai_analyze:" and its try block: the version or the key does not match
\* ("skipped"), the analysis is handed to the pool ("submitted"), or one of the
\* calls raises ("raised"); then "return None"
GuardAi(o) ==
    /\ plCall.pc = "ai"
    /\ o \in AiOutcomes
    /\ o = "off" <=> ~plCall.ai
    /\ Returned([plCall EXCEPT !.aio = o], "raise", "None")
    /\ UNCHANGED <<plDecl, plSig, plTable, plHits>>
    /\ UNCHANGED notPlug

\* emit dispatches every entry of the handler list, so the method is invoked once
\* for each entry it has in the list
Invocations(table) == Len(table)

\* an event of the class of the method is emitted between two guarded calls
PlugEmit ==
    /\ plCall.pc = "idle"
    /\ plHits # Invocations(plTable)
    /\ plHits' = Invocations(plTable)
    /\ UNCHANGED <<plDecl, plSig, plTable, plCall, plKinds, plLast>>
    /\ UNCHANGED notPlug

PlugNext ==
    \/ \E kind \in GuardKinds, full, given, ai \in BOOLEAN : GuardCall(kind, full, given, ai)
    \/ \E v \in FnValues : FnReturn(v)
    \/ FnRaise
    \/ Register
    \/ \E o \in BodyOutcomes : Lifecycle(o)
    \/ \E o \in BodyOutcomes : Retry(o)
    \/ \E sink \in LogSinks : GuardLog(sink)
    \/ \E found \in {"core", "fluent", "none"} : GuardProvider(found)
    \/ \E raised \in BOOLEAN : GuardNotify(raised)
    \/ \E o \in AiOutcomes : GuardAi(o)
    \/ PlugEmit

\* ------------------------------------------------------------- specification
BusNext ==
    \/ \E t \in Callers, ty \in EventTypes, b \in BOOLEAN, p \in Priorities : On(t, ty, b, p)
    \/ \E t \in Threads : LockAcquire(t)
    \/ \E t \in Callers, ty \in EventTypes : EmitNew(t, ty)
    \/ \E t \in Threads : EmitSnapshot(t)
    \/ \E t \in Threads : EmitDispatch(t)
    \/ \E w \in Workers : WorkerTake(w)
    \/ \E t \in Threads : HandlerOk(t)
    \/ \E t \in Threads : HandlerCancel(t)
    \/ \E t \in Threads : HandlerRaise(t)
    \/ \E t \in Threads, ty \in EventTypes, b \in BOOLEAN, p \in Priorities :
            HandlerSubscribe(t, ty, b, p)
    \/ \E t \in Threads, ty \in EventTypes : HandlerEmitNew(t, ty)
    \/ \E t \in Threads : HandlerReturn(t)

\* the event bus and the pool, the marshaler left alone
BusIdle == mApp = TRUE /\ mCalls = <<>> /\ mQueue = <<>> /\ mStack = [t \in MThreads |-> <<>>]
HookIdleInit == HookInit /\ hHost = TRUE
InitBus == BusInit /\ BusIdle /\ PoolInit /\ HookIdleInit /\ RegInit /\ CoreInit /\ PlugIdle

\* every thread that can take a step of the bus is scheduled in the end, and every
\* handler body comes to an end: the callers and the handlers decide what they do,
\* not whether they go on
ThreadStep(t) ==
    \/ LockAcquire(t)
    \/ EmitSnapshot(t)
    \/ EmitDispatch(t)
    \/ WorkerTake(t)
    \/ HandlerOk(t)
    \/ HandlerReturn(t)
BusFair == \A t \in Threads : WF_vars(ThreadStep(t))
SpecBus == InitBus /\ [][BusNext]_vars
SpecBusFair == InitBus /\ [][BusNext]_vars /\ BusFair

\* the marshaler, the bus left alone
InitUI == BusInit /\ UiInit /\ PoolInit /\ HookIdleInit /\ RegInit /\ CoreInit /\ PlugIdle
SpecUI == InitUI /\ [][UiNext]_vars

\* the worker pool of ThreadManager, the bus and the marshaler left alone
InitPool == BusInit /\ BusIdle /\ PoolInit /\ HookIdleInit /\ RegInit /\ CoreInit /\ PlugIdle
SpecPool == InitPool /\ [][PoolNext]_vars

\* the hook installer and the host factory, the rest left alone
InitHook == BusInit /\ BusIdle /\ PoolInit /\ HookInit /\ RegInit /\ CoreInit /\ PlugIdle
SpecHook == InitHook /\ [][HookNext]_vars

InitNoHost == BusInit /\ BusIdle /\ PoolInit /\ HookInit /\ hHost = FALSE /\ RegInit /\ CoreInit /\ PlugIdle
SpecNoHost == InitNoHost /\ [][NoHostNext]_vars

\* the worker threads keep running: a worker takes the next item when there is one
\* and a running task takes its next step
PoolFair ==
    \A w \in PoolWorkers :
        /\ WF_vars(PoolTake(w))
        /\ WF_vars(TaskLock(w))
        /\ WF_vars(TaskInc(w))
        /\ WF_vars(TaskRaise(w))
        /\ WF_vars(TaskDone(w))
SpecPoolClose == InitPool /\ [][PoolCloseNext]_vars /\ PoolFair

InitCore == BusInit /\ BusIdle /\ PoolInit /\ HookIdleInit /\ RegInit /\ CoreInit /\ PlugIdle
SpecCore == InitCore /\ [][CoreNext]_vars

InitReg == BusInit /\ BusIdle /\ PoolInit /\ HookIdleInit /\ RegInit /\ CoreInit /\ PlugIdle
SpecReg == InitReg /\ [][RegNext]_vars

InitBridge == BusInit /\ BusIdle /\ PoolInit /\ BridgeInit /\ RegInit /\ CoreInit /\ PlugIdle
SpecBridge == InitBridge /\ [][BridgeNext]_vars

\* start_server calls in a loaded host
InitStart == BusInit /\ BusIdle /\ PoolInit /\ BridgeInit /\ RegInit /\ CoreInit /\ PlugIdle
SpecStart == InitStart /\ [][SrvNext]_vars

\* the start wrapper with a capture path that can fail
WrapNext ==
    \/ \E t \in HookThreads, n \in ServerNames, r \in StartResults : StartCall(t, n, r)
    \/ \E t \in HookThreads : HookCheck(t)
    \/ \E t \in HookThreads : HookConnectLog(t)
    \/ \E t \in HookThreads : HookConnectClosed(t)
    \/ \E t \in HookThreads : HookRegister(t)
    \/ \E t \in HookThreads : CaptureFails(t)
    \/ \E t \in HookThreads : StartReturn(t)
InitWrap == BusInit /\ BusIdle /\ PoolInit /\ BridgeInit /\ RegInit /\ CoreInit /\ PlugIdle
SpecWrap == InitWrap /\ [][WrapNext]_vars

\* the plugin entry point and the guards
InitPlugin == BusInit /\ BusIdle /\ PoolInit /\ HookIdleInit /\ RegInit /\ CoreInit /\ PlugInit
SpecPlugin == InitPlugin /\ [][PlugNext]_vars

\* the marshaler with threads that keep running and callables that end: a thread
\* inside run_on_ui_thread takes its next step, the event loop of the UI thread
\* delivers queued signals, a running callable returns or raises
UiFair ==
    /\ \A t \in MThreads : WF_vars(RoutStart(t))
    /\ \A t \in MThreads : WF_vars(FuncEnd(t))
    /\ \A t \in MThreads : WF_vars(WaitEnd(t))
    /\ WF_vars(InvokerRun(UiThread))
SpecUIFair == InitUI /\ [][UiNext]_vars /\ UiFair

\* ------------------------------------------------------------- properties of the bus
Live(k) == emits[k].st # "free"
Dispatched(k) == 1..Len(emits[k].log)
Inline(k, n) == ~emits[k].refs[n].background
TypeOf(k) == events[emits[k].ev].type

\* C1: within one emit, of two inline handlers with different priorities the one with
\* the higher priority is invoked, and has finished, before the other is invoked,
\* whichever was subscribed first.
C1_InlinePriorityOrder ==
    \A k \in Slots : \A i, j \in Dispatched(k) :
        (i < j /\ Inline(k, i) /\ Inline(k, j))
            => /\ emits[k].refs[i].priority >= emits[k].refs[j].priority
               /\ emits[k].log[i].st = "done"

\* an emit invoked two inline handlers, the one subscribed later first
C1_Witness ==
    \E k \in Slots :
        /\ Len(emits[k].log) = 2
        /\ Inline(k, 1) /\ Inline(k, 2)
        /\ emits[k].refs[1].priority > emits[k].refs[2].priority
        /\ emits[k].log[1].fn[2] > emits[k].log[2].fn[2]

\* C6: within one emit, handlers of equal priority are dispatched in the order in
\* which they were subscribed.
C6_StableOnInsertion ==
    \A k \in Slots : \A i, j \in Dispatched(k) :
        (i < j /\ emits[k].refs[i].priority = emits[k].refs[j].priority)
            => emits[k].log[i].fn[2] < emits[k].log[j].fn[2]

\* an emit dispatched two handlers of equal priority
C6_Witness ==
    \E k \in Slots :
        /\ Len(emits[k].log) = 2
        /\ emits[k].refs[1].priority = emits[k].refs[2].priority

\* C2 as stated: once a handler of an emit has set event.cancelled, whichever way it
\* was dispatched, no handler later in the snapshot has been invoked or submitted.
C2_AsStated ==
    \A k \in Slots : \A i, j \in Dispatched(k) :
        ~(i < j /\ emits[k].log[i].act = "cancel")

\* C2 amended: no ref is dispatched by an iteration that finds event.cancelled true,
\* and once an inline handler has set it no handler later in the snapshot is invoked
\* or submitted.
C2_CancelStopsDispatch ==
    \A k \in Slots :
        /\ \A n \in Dispatched(k) : ~emits[k].log[n].seen
        /\ \A i, j \in Dispatched(k) :
              ~(i < j /\ Inline(k, i) /\ emits[k].log[i].act = "cancel")

\* an inline handler cancelled the event while a handler was left in the snapshot
C2_Witness ==
    \E k \in Slots : \E n \in Dispatched(k) :
        /\ Inline(k, n)
        /\ emits[k].log[n].act = "cancel"
        /\ Len(emits[k].refs) > n

\* C3: an exception raised by a handler never leaves _safe_call (neither into emit nor
\* into the pool task), and emit ends only at the end of its snapshot or on a
\* cancelled event, whether or not a handler raised.
C3_NoEscape ==
    \A k \in Slots :
        /\ emits[k].st # "raised"
        /\ \A n \in Dispatched(k) : emits[k].log[n].st # "escaped"
C3_EndsOnlyAtEnd ==
    \A k \in Slots :
        (emits[k].st = "running" /\ emits'[k].st # "running")
            => Len(emits[k].log) = Len(emits[k].refs) \/ Cancelled(emits[k].ev)
C3_RaiseIsIsolated == [](C3_NoEscape) /\ [][C3_EndsOnlyAtEnd]_vars

\* a handler raised and the next handler of the snapshot was dispatched after it
C3_Witness ==
    \E k \in Slots : \E i, j \in Dispatched(k) :
        i < j /\ emits[k].log[i].act = "raise" /\ emits[k].log[i].st = "done"

\* C4: a thread inside a bus call, nested in a handler or not, can always take its
\* next step, or waits for the lock while the owner of the lock can leave it at its
\* next step: no bus call made from a handler blocks for ever.
LockHolderLeaves == lockOwner # NoThread /\ ENABLED EmitSnapshot(lockOwner)
C4_NestedCallsNeverBlock ==
    \A t \in Threads :
        Busy(t) =>
            CASE Top(t).op = "call" /\ Top(t).pc = "body" -> CanAcquire(t) \/ LockHolderLeaves
              [] Top(t).op = "call" /\ Top(t).pc = "after" -> ENABLED HandlerReturn(t)
              [] Top(t).op = "emit" /\ Top(t).pc = "acquire" ->
                    ENABLED LockAcquire(t) \/ LockHolderLeaves
              [] Top(t).op = "emit" /\ Top(t).pc = "locked" -> ENABLED EmitSnapshot(t)
              [] OTHER -> ENABLED EmitDispatch(t)

\* an emit nested in an inline handler has returned, and the outer emit has a
\* handler left to dispatch
C4_Witness ==
    \E t \in Threads :
        /\ Len(stack[t]) = 2
        /\ Top(t).op = "call" /\ Top(t).pc = "after"
        /\ Inline(Top(t).k, Top(t).i)
        /\ Len(emits[Top(t).k].refs) > Top(t).i

C7_BackgroundOffThread ==
    /\ \A t \in Threads : \A m \in 1..Len(stack[t]) :
          stack[t][m].op = "call" =>
              LET k == stack[t][m].k
                  i == stack[t][m].i
              IN IF emits[k].refs[i].background
                 THEN /\ t \in Workers
                      /\ m = 1
                      /\ emits[k].st = "running" => emits[k].th # t
                 ELSE /\ m >= 2
                      /\ stack[t][m - 1].op = "emit"
                      /\ stack[t][m - 1].k = k
                      /\ emits[k].th = t
                      /\ Len(emits[k].log) = i
    /\ \A k \in Slots : \A i, j \in Dispatched(k) :
          (i < j /\ Inline(k, i)) =>
              emits[k].log[i].st = "done" /\ emits[k].log[i].th = emits[k].th

\* an emit dispatched a further handler while a background handler it had submitted
\* was still waiting in the pool
C7_Witness ==
    \E k \in Slots : \E i, j \in Dispatched(k) :
        /\ i < j
        /\ emits[k].refs[i].background
        /\ emits[k].log[i].st = "queued"
        /\ emits[k].st = "running"

\* C8: a background handler that was submitted stays in the pool queue until a worker
\* runs it; it is never dropped, whatever event.cancelled has become meanwhile.
C8_NotRetroactive ==
    \A k \in Slots : \A n \in Dispatched(k) :
        emits[k].refs[n].background =>
            /\ emits[k].log[n].st \in {"queued", "running", "done"}
            /\ ~emits[k].log[n].seen
            /\ emits[k].log[n].st = "queued"
                  => \E q \in 1..Len(poolQueue) : poolQueue[q] = <<k, n>>

\* a background handler is running that was started after the event was cancelled
C8_Witness ==
    \E k \in Slots : \E n \in Dispatched(k) :
        /\ emits[k].refs[n].background
        /\ emits[k].log[n].st = "running"
        /\ emits[k].log[n].late

\* C9: an emit dispatches only handlers subscribed under the class of its event, and
\* an event is cancelled only by a handler that was dispatched for that very event.
C9_TypeIsolation ==
    /\ \A k \in Slots : \A n \in Dispatched(k) : emits[k].log[n].fn[1] = TypeOf(k)
    /\ \A e \in Slots :
          events[e].cancelled =>
              \E k \in Slots : /\ Live(k)
                               /\ emits[k].ev = e
                               /\ \E n \in Dispatched(k) : emits[k].log[n].act = "cancel"

\* two emits of different classes are alive, both classes have handlers, one event is
\* cancelled and the other emit has dispatched a handler and is not cancelled
C9_Witness ==
    \E k1, k2 \in Slots :
        /\ Live(k1) /\ Live(k2)
        /\ TypeOf(k1) # TypeOf(k2)
        /\ Cancelled(emits[k1].ev)
        /\ ~Cancelled(emits[k2].ev)
        /\ Len(emits[k2].log) >= 1
        /\ handlers[TypeOf(k1)] # <<>>

\* ------------------------------------------------------------- properties of the marshaler
\* C10: a run_on_ui_thread call made on the UI thread is never queued and makes no
\* Future, its callable runs in place on the UI thread, once, and the call gives back
\* what the callable gave; the UI thread never waits on a Future, also when the call
\* is made by a callable that was itself marshaled to the UI thread.
C10_UiCallRunsInPlace ==
    /\ \A c \in 1..Len(mCalls) :
          mCalls[c].caller = UiThread =>
              /\ ~mCalls[c].enq
              /\ mCalls[c].fut = "none"
              /\ \A q \in 1..Len(mQueue) : mQueue[q] # c
              /\ mCalls[c].ret \in {"none", "value", "raised"}
              /\ mCalls[c].ret # "none" =>
                    /\ mCalls[c].runs = 1
                    /\ mCalls[c].on = UiThread
                    /\ mCalls[c].retVal = mCalls[c].val
                    /\ mCalls[c].ret = "value" <=> mCalls[c].val # Raises
    /\ \A m \in 1..Len(mStack[UiThread]) :
          /\ mStack[UiThread][m].pc # "wait"
          /\ (mStack[UiThread][m].op = "func"
                /\ mCalls[mStack[UiThread][m].c].caller = UiThread)
              => /\ mStack[UiThread][m].how = "sync"
                 /\ m >= 2
                 /\ mStack[UiThread][m - 1].op = "rout"
                 /\ mStack[UiThread][m - 1].c = mStack[UiThread][m].c

\* a callable marshaled by a background thread called run_on_ui_thread(wait=True)
\* itself on the UI thread and got the value of the inner callable
C10_Witness ==
    \E c1, c2 \in 1..Len(mCalls) :
        /\ mApp
        /\ mCalls[c1].caller \in BgThreads
        /\ mCalls[c1].wait
        /\ mStack[UiThread] = <<[FuncFrame(c1, "slot") EXCEPT !.pc = "after"]>>
        /\ mCalls[c2].caller = UiThread
        /\ mCalls[c2].wait
        /\ mCalls[c2].ret = "value"

\* C11: with an application, run_on_ui_thread(f, wait=True) called from a worker
\* thread returns only after f ran once on the UI thread and gives back what f gave
\* there; with wait=False it queues the call and returns the Future in the same step,
\* never waiting, and whenever that Future holds a result or an exception it is what
\* f gave on the UI thread.
C11_Safe ==
    /\ \A c \in 1..Len(mCalls) :
          (mApp /\ mCalls[c].caller \in BgThreads) =>
              /\ mCalls[c].ret # "none" => mCalls[c].enq
              /\ (mCalls[c].wait /\ mCalls[c].ret # "none") =>
                    /\ mCalls[c].runs = 1
                    /\ mCalls[c].on = UiThread
                    /\ mCalls[c].retVal = mCalls[c].val
                    /\ mCalls[c].ret = (IF mCalls[c].val # Raises THEN "value" ELSE "raised")
              /\ ~mCalls[c].wait =>
                    /\ mCalls[c].ret = (IF mCalls[c].enq THEN "future" ELSE "none")
                    /\ mCalls[c].fut \in {"result", "exception"} =>
                          /\ mCalls[c].runs = 1
                          /\ mCalls[c].on = UiThread
                          /\ mCalls[c].futVal = mCalls[c].val
                          /\ mCalls[c].fut = "result" <=> mCalls[c].val # Raises
    /\ \A t \in MThreads : \A m \in 1..Len(mStack[t]) :
          (mStack[t][m].op = "rout" /\ mStack[t][m].pc = "wait")
              => mCalls[mStack[t][m].c].wait

\* a Future handed to a worker stays pending only until the UI thread ran the
\* callable, unless its holder cancels it
C11_Resolves ==
    \A c \in 1..MaxCalls :
        (FutState(c) = "pending") ~> (FutState(c) \in {"result", "exception", "cancelled"})

C11_WorkerCallGetsUiValue == []C11_Safe /\ C11_Resolves

\* one worker got the value of its waited call back, another holds a Future that was
\* returned before the callable ran and has since taken the callable's value
C11_Witness ==
    \E c, d \in 1..Len(mCalls) :
        /\ mApp
        /\ mCalls[c].caller \in BgThreads /\ mCalls[c].wait
        /\ mCalls[c].ret = "value" /\ mCalls[c].retVal = mCalls[c].val
        /\ mCalls[d].caller \in BgThreads /\ ~mCalls[d].wait
        /\ mCalls[d].ret = "future" /\ mCalls[d].fut = "result"
        /\ mCalls[d].futVal = mCalls[d].val

\* call c is over: it gave its caller something, its signal is no longer queued and
\* its callable is not running
CallOver(c) ==
    /\ mCalls[c].ret # "none"
    /\ \A q \in 1..Len(mQueue) : mQueue[q] # c
    /\ \A t \in MThreads : \A m \in 1..Len(mStack[t]) :
          ~(mStack[t][m].op = "func" /\ mStack[t][m].c = c)

\* C12 as stated: every callable is executed exactly once, for every caller and both
\* values of wait, also when the caller cancels the Future before the UI thread
\* reaches the queued call.
C12_AsStated ==
    \A c \in 1..Len(mCalls) :
        /\ mCalls[c].runs <= 1
        /\ CallOver(c) => mCalls[c].runs = 1

\* C12: no callable is executed twice; a call that is over has executed its callable
\* exactly once, unless its Future was cancelled before the UI thread reached the
\* queued call, and then the callable is never executed.
C12_OnceUnlessCancelled ==
    \A c \in 1..Len(mCalls) :
        /\ mCalls[c].runs <= 1
        /\ (CallOver(c) /\ ~mCalls[c].early) => mCalls[c].runs = 1
        /\ mCalls[c].early => mCalls[c].runs = 0

\* one call was cancelled in time and skipped by _run, another was queued, ran once
\* and is over
C12_Witness ==
    \E c, d \in 1..Len(mCalls) :
        /\ mCalls[c].early /\ mCalls[c].dlvAt > 0 /\ mCalls[c].runs = 0 /\ CallOver(c)
        /\ mCalls[d].enq /\ ~mCalls[d].early /\ CallOver(d) /\ mCalls[d].runs = 1

\* the callable of call c is running (or waiting for a call it made itself)
Running(c) ==
    \E t \in MThreads : \E m \in 1..Len(mStack[t]) :
        mStack[t][m].op = "func" /\ mStack[t][m].c = c

C14_AsStated ==
    ~mApp =>
        \A c \in 1..Len(mCalls) :
            /\ ~Running(c)
            /\ mCalls[c].runs = 0
            /\ mCalls[c].ret # "none" =>
                  (mCalls[c].ret = "raised" /\ mCalls[c].retVal = "RuntimeError")

\* C15: an error raised by a queued callable reaches the caller: with wait=True it is
\* raised again by the call, with wait=False the call returns the Future and the error
\* is in that Future once the callable is over; it never leaves _run into the event
\* loop of the UI thread.
C15_AsStated ==
    \A c \in 1..Len(mCalls) :
        (mCalls[c].enq /\ mCalls[c].val = Raises) =>
            /\ ~mCalls[c].esc
            /\ (mCalls[c].wait /\ mCalls[c].ret # "none") =>
                  (mCalls[c].ret = "raised" /\ mCalls[c].retVal = Raises)
            /\ ~mCalls[c].wait =>
                  /\ mCalls[c].ret = "future"
                  /\ mCalls[c].runs = 1 =>
                        (mCalls[c].fut = "exception" /\ mCalls[c].futVal = Raises)

\* C16: run_on_ui_thread called with wait=False gives its caller a Future, whether
\* the caller is a worker thread or the UI thread.
C16_AsStated ==
    \A c \in 1..Len(mCalls) :
        (~mCalls[c].wait /\ mCalls[c].ret # "none") =>
            (mCalls[c].ret = "future" /\ mCalls[c].fut # "none")

\* ------------------------------------------------------------- properties of the pool
\* every Future of the pool holds a result or an exception
AllDone == \A i \in 1..Len(pTasks) : pTasks[i].fut \in {"result", "exception"}

\* C17: every submitted task is executed exactly once: no task is ever run twice, a
\* Future that is done belongs to a task that ran once, and once all Futures are
\* done the lock-protected counter equals the number of increment tasks submitted.
C17_EveryTaskRunsOnce ==
    /\ \A i \in 1..Len(pTasks) :
          /\ pTasks[i].runs <= 1
          /\ pTasks[i].fut = "pending" <=> pTasks[i].runs = 0
    /\ AllDone => pCounter = Cardinality({i \in 1..Len(pTasks) : pTasks[i].kind = "inc"})

\* more increment tasks than workers were submitted, all are done and the counter
\* holds their number
C17_Witness ==
    /\ Len(pTasks) > MaxWorkers
    /\ \A i \in 1..Len(pTasks) : pTasks[i].kind = "inc" /\ pTasks[i].fut = "result"
    /\ pCounter = Len(pTasks)

\* C18: a task that raises leaves its error in the Future that submit returned: a
\* task that has run and is no longer on a worker has a done Future, holding an
\* exception exactly when the task raised; no worker thread ends because of it, and a
\* worker that ran a failing task and is back at the queue takes the next queued task.
C18_RaisingTaskIsCaptured ==
    /\ \A i \in 1..Len(pTasks) :
          /\ (pTasks[i].runs > 0 /\ \A w \in PoolWorkers : pWork[w].task # i)
                => pTasks[i].fut \in {"result", "exception"}
          /\ pTasks[i].fut \in {"result", "exception"}
                => (pTasks[i].fut = "exception" <=> pTasks[i].kind = "exc")
    /\ \A w \in PoolWorkers :
          /\ pWork[w].pc # "dead"
          /\ (pWork[w].failed /\ pWork[w].task = 0 /\ pQueue # <<>>)
                => ENABLED PoolTake(w)

\* a task submitted after another task had failed was run, to its result, by a worker
\* that had run a failing task before
C18_Witness ==
    \E i, j \in 1..Len(pTasks) :
        /\ pTasks[i].kind = "exc" /\ pTasks[i].fut = "exception"
        /\ pTasks[j].late /\ pTasks[j].after /\ pTasks[j].fut = "result"

\* C19: submit never waits: it can be called, and gives a pending Future, whatever
\* the workers are doing, also when all of them are busy; never more tasks run at
\* once than the pool has workers; the queued tasks are taken in submission order.
C19_SubmitNeverBlocks ==
    /\ Len(pTasks) < MaxTasks =>
          \A t \in Submitters, k \in TaskKinds : ENABLED Submit(t, k)
    /\ Cardinality({i \in 1..Len(pTasks) : pTasks[i].fut = "running"}) <= MaxWorkers
    /\ \A i, j \in 1..Len(pTasks) :
          (i < j /\ pTasks[j].runs > 0) => pTasks[i].runs > 0
    /\ \A q \in 1..Len(pQueue) : pTasks[pQueue[q]].fut = "pending"

\* two tasks were submitted while every worker was busy; they are queued, in the
\* order of their submission, behind the running ones
C19_Witness ==
    /\ AllBusy
    /\ Len(pQueue) >= 2
    /\ \A q \in 1..Len(pQueue) : pTasks[pQueue[q]].full
    /\ \A q \in 1..(Len(pQueue) - 1) : pQueue[q] < pQueue[q + 1]

\* ------------------------------------------------------------- properties of the hooks
\* the factory carries at most one wrapper, a bus whose flag is set finds the factory
\* wrapped, and no bridge is captured more than once; a bridge made by the wrapped
\* factory for a named launcher has, once start returned, one registration and one
\* listener on each of its two signals
C20_OneWrapper ==
    /\ Len(hStart) <= 1
    /\ \A b \in Buses : hInstalled[b] => Len(hStart) = 1
    /\ \A h \in 1..Len(hBridges) :
          /\ hBridges[h].regs <= 1
          /\ Len(hBridges[h].log) <= 1
          /\ Len(hBridges[h].closed) <= 1
          /\ (hBridges[h].ret /\ hBridges[h].name # "" /\ hBridges[h].wrapped # <<>>)
                => /\ hBridges[h].regs = 1
                   /\ Len(hBridges[h].log) = 1
                   /\ Len(hBridges[h].closed) = 1

\* an install_hooks call made on a bus whose flag is set returns at once and leaves
\* the factory, the flags, the hooked keys, the bridges and the registry as they were
C20_SecondCallIsNoOp ==
    (hCalls' = hCalls + 1 /\ \E b \in Buses : hInstalled[b] /\ hDone'[b] = hDone[b] + 1)
        => UNCHANGED <<hHost, hStart, hInstalled, hKeys, hBridges, hRegistry, hThr>>

\* C20: install_hooks called twice on the same bus leaves exactly one wrapper on the
\* host factory, the second call changing nothing, and a session the factory makes
\* afterwards is captured exactly once: one registration, one listener per signal.
C20_InstallTwiceOneWrapper == []C20_OneWrapper /\ [][C20_SecondCallIsNoOp]_vars

\* install_hooks has returned twice on a bus, the factory carries the wrapper of that
\* bus, and a bridge it made afterwards is registered once with one listener per signal
C20_Witness ==
    \E b \in Buses : \E h \in 1..Len(hBridges) :
        /\ hDone[b] >= 2
        /\ hInstalled[b]
        /\ hStart = <<b>>
        /\ hBridges[h].wrapped = <<b>>
        /\ hBridges[h].ret
        /\ hBridges[h].regs = 1
        /\ hBridges[h].log = << <<b, "s">> >>
        /\ hBridges[h].closed = << <<b, "s">> >>
        /\ hRegistry["s"] = h

\* C21: under every interleaving of install_hooks calls from several threads and
\* several buses, ServerLauncher.start is the original function or one start_wrapper
\* whose inner function is the original, never a wrapper around a wrapper, and one
\* call of the factory goes through the capture path at most once.
C21_WrappedAtMostOnce ==
    /\ Len(hStart) <= 1
    /\ \A t \in HookThreads :
          /\ hThr[t].op \in {"patch", "finish"} => hThr[t].orig = <<>>
          /\ hThr[t].op \in {"start", "connLog", "connClosed", "register"}
                => Len(hThr[t].orig) <= 1
    /\ \A h \in 1..Len(hBridges) :
          /\ Len(hBridges[h].wrapped) <= 1
          /\ hBridges[h].caps <= 1

\* two install_hooks calls on two buses both read the original function before
\* either replaced it, and both have replaced it: the wrapper in place is the one
\* set last, around the original
C21_Witness ==
    \E t, u \in HookThreads :
        /\ t # u
        /\ hThr[t].op = "finish" /\ hThr[u].op = "finish"
        /\ hThr[t].bus # hThr[u].bus
        /\ Len(hStart) = 1

\* ------------------------------------------------- properties of hook_bridge
\* the listeners that bus b has connected under name n to a channel of a bridge
ListenersOf(ch, b, n) == {i \in 1..Len(ch) : ch[i] = <<b, n>>}

NoteListeners ==
    IF hNote.chan = "log" THEN hBridges[hNote.bridge].log ELSE hBridges[hNote.bridge].closed

\* the events of the last signal that bus b got for the server name n
NoteEmits(b, n) == {i \in 1..Len(hEmits) : hEmits[i].bus = b /\ hEmits[i].server_name = n}

\* C23: a signal of a bridge makes each bus that hooked the bridge under a name emit
\* exactly one event for that name, and nothing else: serverLogOutput(line) gives one
\* LogEvent with that name and the line as content, serverClosed(code) gives one
\* ServerExitEvent with that name and the integer exit code.
C23_OneEventPerSignal ==
    [][hNotes' = hNotes + 1 =>
         /\ \A b \in Buses, n \in ServerNames :
              Cardinality(NoteEmits(b, n)') =
                  IF <<n, hNote'.bridge>> \in hKeys[b]
                     /\ ListenersOf(NoteListeners', b, n) # {}
                  THEN 1 ELSE 0
         /\ \A i \in 1..Len(hEmits') :
              IF hNote'.chan = "log"
              THEN hEmits'[i].type = "LogEvent" /\ hEmits'[i].content = hNote'.line
              ELSE /\ hEmits'[i].type = "ServerExitEvent"
                   /\ hEmits'[i].exit_code = hNote'.code
                   /\ hEmits'[i].exit_code \in Int]_vars

\* a bridge of a launcher without a name, hooked by a collaborator under the name
\* "s", has sent a log line: one LogEvent for "s" with that line
C23_Witness ==
    /\ hNote.chan = "log"
    /\ hNote.line = "l2"
    /\ hBridges[hNote.bridge].name = ""
    /\ hBridges[hNote.bridge].wrapped # <<>>
    /\ \E b \in Buses :
         hEmits = <<[bus |-> b, type |-> "LogEvent", server_name |-> "s", content |-> "l2"]>>

\* the start() call thread t is in has nothing to capture: the launcher has no
\* name, or the original function gave the EULA object or None
NoCapture(t) == hThr[t].name = "" \/ hThr[t].bridge = 0

\* C24: a start() call through the wrappers whose launcher has no name or whose
\* result is the EULA object or None does not reach hook_bridge: from the call to its
\* return no _bridge_hooks key is added, no listener is connected and APICore._bridges
\* is unchanged.
C24_NoCaptureWithoutHandle ==
    [][\A t \in HookThreads :
         (hThr'[t].op = "start" \/ hThr[t].op = "start") /\ hThr'[t] # hThr[t]
         /\ (IF hThr[t].op = "start" THEN NoCapture(t) ELSE NoCapture(t)')
         => /\ hThr'[t].op \in {"start", "idle"}
            /\ hThr'[t].op = "start" => hThr'[t].todo = <<>>
            /\ hKeys' = hKeys
            /\ hRegistry' = hRegistry
            /\ \A h \in 1..Len(hBridges) :
                 /\ hBridges'[h].log = hBridges[h].log
                 /\ hBridges'[h].closed = hBridges[h].closed
                 /\ hBridges'[h].regs = hBridges[h].regs
            /\ \A h \in (Len(hBridges) + 1)..Len(hBridges') :
                 hBridges'[h].log = <<>> /\ hBridges'[h].closed = <<>>]_vars

\* with a wrapper installed, a start() that gave the EULA object or None is about to
\* return while the bridge of an earlier start() of a launcher without a name has
\* been returned: nothing is hooked and nothing is registered
C24_Witness ==
    /\ \E t \in HookThreads :
         hThr[t].op = "start" /\ hThr[t].orig # <<>> /\ hThr[t].bridge = 0
         /\ hThr[t].name = "s" /\ hThr[t].todo = <<>>
    /\ \E h \in 1..Len(hBridges) :
         /\ hBridges[h].name = "" /\ hBridges[h].wrapped # <<>> /\ hBridges[h].ret
         /\ hBridges[h].log = <<>> /\ hBridges[h].closed = <<>> /\ hBridges[h].caps = 0
    /\ \A n \in ServerNames : hRegistry[n] = 0
    /\ \A b \in Buses : hKeys[b] = {}

\* some thread is inside hook_bridge(h, n) of bus b, at one of the steps ops
Attaching(b, n, h, ops) ==
    \E u \in HookThreads :
        /\ hThr[u].op \in ops
        /\ hThr[u].bridge = h /\ hThr[u].name = n /\ Head(hThr[u].todo) = b

\* a direct hook_bridge call that went through: the key is in _bridge_hooks, and the
\* listeners and the registry entry are there or the call that took the key is
\* about to make them
DirectHookWorked(t) ==
    LET b == hThr[t].bus
        n == hThr[t].name
        h == hThr[t].bridge
    IN /\ <<n, h>> \in hKeys[b]
       /\ ListenersOf(hBridges[h].log, b, n) # {} \/ Attaching(b, n, h, {"connLog"})
       /\ \/ ListenersOf(hBridges[h].closed, b, n) # {}
          \/ Attaching(b, n, h, {"connLog", "connClosed"})
       /\ hRegistry[n] # 0 \/ Attaching(b, n, h, {"connLog", "connClosed", "register"})

C25_HostUntouched ==
    /\ hStart = <<>>
    /\ \A b \in Buses : ~hInstalled[b]
    /\ \A t \in HookThreads :
         hThr[t].op = "direct" /\ hThr[t].todo = <<>> => DirectHookWorked(t)

C25_InstallReturns ==
    \A t \in HookThreads :
        /\ hThr[t].op = "lookup" /\ hThr'[t] # hThr[t] => hThr'[t].op = "idle"
        /\ (hThr[t].op = "lookup" \/ hThr'[t].op = "lookup") /\ hThr'[t] # hThr[t]
           => UNCHANGED <<hHost, hStart, hInstalled, hKeys, hBridges, hRegistry, hEmits,
                          busVars>>

\* C25: where the host module, ServerLauncher or its start method cannot be found,
\* install_hooks returns to its caller and leaves ServerLauncher.start, the flag of
\* the bus, the hooked keys, the bridges, the registry and the state of the bus as
\* they were; a direct hook_bridge call made afterwards connects its listeners and
\* registers the bridge.
C25_NoHostNoChange == []C25_HostUntouched /\ [][C25_InstallReturns]_vars

\* install_hooks has returned on bus b without a host; afterwards a collaborator
\* hooked a bridge on b directly and a log line of the bridge became a LogEvent of b
C25_Witness ==
    \E t \in HookThreads :
        /\ hThr[t].op = "direct" /\ hThr[t].todo = <<>>
        /\ hDone[hThr[t].bus] >= 1
        /\ hCalls = hDone[1] + hDone[2]
        /\ hBridges[hThr[t].bridge].log = <<<<hThr[t].bus, hThr[t].name>>>>
        /\ hBridges[hThr[t].bridge].closed = <<<<hThr[t].bus, hThr[t].name>>>>
        /\ hRegistry[hThr[t].name] = hThr[t].bridge
        /\ hNote.chan = "log"
        /\ hEmits = <<[bus |-> hThr[t].bus, type |-> "LogEvent",
                       server_name |-> hThr[t].name, content |-> hNote.line]>>

\* C27: APICore._bridges never loses an entry by itself: the serverClosed signal of
\* a bridge, which makes its listeners emit ServerExitEvent, leaves every entry as it
\* is, and an entry changes only when a hook_bridge call registers a bridge under
\* its name.
C27_EntryOutlivesClose ==
    [][/\ hNotes' = hNotes + 1 => hRegistry' = hRegistry
       /\ \A n \in ServerNames :
            /\ hRegistry[n] # 0 => hRegistry'[n] # 0
            /\ hRegistry'[n] # hRegistry[n] =>
                 \E t \in HookThreads :
                     /\ hThr[t].op = "register" /\ hThr'[t].op # "register"
                     /\ hThr[t].name = n /\ hRegistry'[n] = hThr[t].bridge]_vars

\* the bridge captured for "s" has sent serverClosed(1), a ServerExitEvent for "s"
\* with exit code 1 was emitted, and the registry still maps "s" to the bridge
C27_Witness ==
    /\ hNote.chan = "closed"
    /\ hNote.code = 1
    /\ hNote.bridge # 0
    /\ hRegistry["s"] = hNote.bridge
    /\ hBridges[hNote.bridge].caps = 1
    /\ \E b \in Buses :
         hEmits = <<[bus |-> b, type |-> "ServerExitEvent", server_name |-> "s",
                     exit_code |-> 1]>>

\* ------------------------------------------------- properties of APICore._bridges
\* thread t has read the entry of its key in get_bridge and is about to return it
GetResult(t) == rThr[t].op = "release" /\ rThr[t].h = 0

\* C26: get_bridge(n) returns the bridge of the latest register_bridge call for the
\* key str(n), whatever was registered under it before, and None when nothing was
\* registered under it; register_bridge never fails and changes the entry of its own
\* key only.
C26_LastWrite ==
    \A t \in RegThreads :
        GetResult(t) =>
            /\ rThr[t].res = rLast[StrKey(rThr[t].name)]
            /\ rWritten[StrKey(rThr[t].name)] = {} => rThr[t].res = 0

C26_OwnKeyOnly ==
    \A t \in RegThreads :
        rThr[t].op = "regWrite" /\ rThr'[t].op # "regWrite" =>
            /\ rBridges'[StrKey(rThr[t].name)] = rThr[t].h
            /\ \A k \in RegKeys \ {StrKey(rThr[t].name)} : rBridges'[k] = rBridges[k]

C26_RegisterOverwrites == []C26_LastWrite /\ [][C26_OwnKeyOnly]_vars

\* bridge 1 and then bridge 2 were registered under the key "1", nothing under "a";
\* a get_bridge("1") has read bridge 2
C26_Witness ==
    \E t \in RegThreads :
        /\ GetResult(t)
        /\ rThr[t].name = <<"str", "1">>
        /\ rThr[t].res = 2
        /\ rWritten["1"] = {1, 2}
        /\ rBridges["a"] = 0

\* the threads inside a with block of _bridges_lock
InLock == {t \in RegThreads : rThr[t].op \in {"regWrite", "getRead", "release"}}

\* C28: register_bridge and get_bridge exclude each other: at most one thread is
\* inside the lock, every get_bridge(n) returns None or a bridge that a
\* register_bridge call wrote under the key of n, and whenever the lock is free the
\* entry of each key is the bridge of the register_bridge call that took the lock
\* last.
C28_MutuallyExclusive ==
    /\ Cardinality(InLock) <= 1
    /\ \A t \in InLock : rLock = t
    /\ \A t \in RegThreads :
         GetResult(t) => rThr[t].res \in {0} \cup rWritten[StrKey(rThr[t].name)]
    /\ rLock = NoThread => \A k \in RegKeys : rBridges[k] = rLast[k]

\* one thread is writing bridge 2 under the key "1", which holds bridge 1, while
\* the other thread waits for the lock with a get_bridge of the same key
C28_Witness ==
    \E t, u \in RegThreads :
        /\ rThr[t].op = "regWrite" /\ StrKey(rThr[t].name) = "1" /\ rThr[t].h = 2
        /\ rBridges["1"] = 1
        /\ rThr[u].op = "getAcq" /\ StrKey(rThr[u].name) = "1"

\* ------------------------------------------------- properties of a closed pool
\* the Future of task i ("none" for a task not submitted)
TaskFut(i) == IF i <= Len(pTasks) THEN pTasks[i].fut ELSE "none"

C29_Rejects ==
    pShut.closed =>
        /\ Len(pTasks') = Len(pTasks)
        /\ \A k \in 1..Len(pQueue') : \E j \in 1..Len(pQueue) : pQueue'[k] = pQueue[j]
        /\ pShut'.closed
        /\ pShut'.rejects # pShut.rejects =>
              /\ pShut'.rejects = pShut.rejects + 1
              /\ UNCHANGED <<pTasks, pQueue, pWork, pCounter, pLock>>

C29_Completes ==
    \A i \in 1..MaxTasks :
        (pShut.closed /\ i \in pShut.inflight) ~> (TaskFut(i) \in {"result", "exception"})

\* C29: once the executor of the pool is shut down, every submit is rejected with
\* the error of the executor and its task is neither queued nor run, while each task
\* that was queued or running at the shutdown is run to its end and its Future gets
\* the result or the exception.
C29_ClosedPoolRejects == [][C29_Rejects]_vars /\ C29_Completes

\* after the shutdown a submit was rejected, and the two tasks that were unfinished
\* at the shutdown, one of them still in the queue, have both ended
C29_Witness ==
    /\ pShut.closed
    /\ pShut.rejects >= 1
    /\ Cardinality(pShut.inflight) >= 2
    /\ \A i \in pShut.inflight : pTasks[i].fut \in {"result", "exception"}
    /\ \E i \in pShut.queued : pTasks[i].runs = 1

C31_AsStated ==
    \A k \in 1..Len(hSrv) :
        /\ ~hSrv[k].found \/ hSrv[k].res = "eula" => hSrv[k].ret # "true"
        /\ hSrv[k].ret = "true" =>
             /\ hSrv[k].res = "bridge"
             /\ hSrv[k].reg = hSrv[k].bridge
             /\ hSrv[k].bridge # 0

\* ------------------------------------------------- the lock of the bus
\* C32: EventBus._handlers is changed and copied only by a thread that holds
\* EventBus._lock, and the lock an emit took for its copy is given back before its
\* first handler is dispatched: a thread holds the lock only in the innermost frame
\* of its stack, an emit up to its copy, and never while it runs a handler.
C32_LockInv ==
    /\ lockOwner = NoThread <=> lockCount = 0
    /\ lockCount <= 1
    /\ \A t \in Threads :
         /\ \A m \in 1..Len(stack[t]) :
              stack[t][m].op = "emit" /\ stack[t][m].pc = "locked"
              => m = Len(stack[t]) /\ lockOwner = t
         /\ lockOwner = t => Busy(t) /\ Top(t).op = "emit" /\ Top(t).pc = "locked"
         /\ InCall(t) => lockOwner # t
    /\ \A k \in Slots :
         emits[k].st # "free" /\ emits[k].log # <<>> => emits[k].snapped

C32_LockAct ==
    /\ handlers' # handlers => lockOwner = NoThread /\ lockOwner' = NoThread
    /\ \A k \in Slots :
         emits[k].st = "running" /\ ~emits[k].snapped /\ emits'[k].snapped
         => lockOwner = emits[k].th /\ lockOwner' # emits[k].th

C32_HandlersRunOutsideLock == []C32_LockInv /\ [][C32_LockAct]_vars

\* the caller thread runs an inline handler of its emit while the lock is free, and
\* a subscription has been added to the table of that event class since the copy
C32_Witness ==
    \E t \in Callers :
        /\ InCall(t)
        /\ ~emits[Top(t).k].refs[Top(t).i].background
        /\ lockOwner = NoThread
        /\ Len(handlers[events[emits[Top(t).k].ev].type]) > emits[Top(t).k].atSnap

\* ------------------------------------------------- the order of submission
\* the handler dispatched at position i of emit k comes before the one at position j
\* in the order of the copy: higher priority first, equal priorities as subscribed
SnapshotOrder(k, i, j) ==
    \/ emits[k].refs[i].priority > emits[k].refs[j].priority
    \/ /\ emits[k].refs[i].priority = emits[k].refs[j].priority
       /\ emits[k].refs[i].fn[2] < emits[k].refs[j].fn[2]

\* C33: within one emit, the handlers are dispatched in the order of the copy, the
\* background ones among them: the tasks of one emit wait in the pool queue in that
\* order, and a background handler is submitted only after every handler before it
\* in the copy has been submitted or, if inline, has finished, and before every
\* handler behind it.
C33_QueueInv ==
    /\ \A k \in Slots : \A i, j \in Dispatched(k) :
          i < j => /\ SnapshotOrder(k, i, j)
                   /\ emits[k].log[i].fn = emits[k].refs[i].fn
                   /\ emits[k].log[j].fn = emits[k].refs[j].fn
    /\ \A a, b \in 1..Len(poolQueue) :
          (a < b /\ poolQueue[a][1] = poolQueue[b][1])
             => /\ poolQueue[a][2] < poolQueue[b][2]
                /\ SnapshotOrder(poolQueue[a][1], poolQueue[a][2], poolQueue[b][2])

C33_SubmitAct ==
    \A k \in Slots :
        (emits[k].st = "running" /\ emits'[k].st = "running"
            /\ Len(emits'[k].log) > Len(emits[k].log))
        => LET n == Len(emits'[k].log)
           IN /\ n = Len(emits[k].log) + 1
              /\ \A m \in 1..(n - 1) :
                    /\ emits'[k].log[m].fn = emits[k].log[m].fn
                    /\ Inline(k, m) => emits[k].log[m].st = "done"
              /\ emits[k].refs[n].background
                    => /\ Len(poolQueue') = Len(poolQueue) + 1
                       /\ poolQueue'[Len(poolQueue')] = <<k, n>>
                       /\ emits'[k].log[n].st = "queued"
              /\ ~emits[k].refs[n].background => poolQueue' = poolQueue

C33_SubmittedInSnapshotOrder == []C33_QueueInv /\ [][C33_SubmitAct]_vars

\* two background handlers of one emit wait in the pool queue, the one subscribed
\* later in front because of its higher priority
C33_Witness ==
    \E k \in Slots :
        /\ Len(poolQueue) >= 2
        /\ poolQueue[1][1] = k /\ poolQueue[2][1] = k
        /\ emits[k].refs[poolQueue[1][2]].fn[2] > emits[k].refs[poolQueue[2][2]].fn[2]
        /\ emits[k].refs[poolQueue[1][2]].priority > emits[k].refs[poolQueue[2][2]].priority

\* ------------------------------------------------- submitted handlers are run
\* position n of emit k waits in the pool / has been taken by a worker
Waiting(k, n) == Live(k) /\ n <= Len(emits[k].log) /\ emits[k].log[n].st = "queued"
Taken(k, n) ==
    Live(k) /\ n <= Len(emits[k].log) /\ emits[k].log[n].st \in {"running", "done"}
        /\ emits[k].log[n].th \in Workers

\* C34: every background handler an emit has submitted is run by a worker in the
\* end, when every thread is scheduled and every handler body ends, also when an
\* emit has submitted more handlers than the pool has workers.
C34_SubmittedIsRun ==
    \A k \in Slots : \A n \in 1..MaxSubs : Waiting(k, n) ~> Taken(k, n)

\* more tasks of one emit wait in the queue than the pool has workers, and every
\* worker is busy
C34_Witness ==
    /\ IdleWorkers = {}
    /\ Len(poolQueue) > Cardinality(Workers)
    /\ \A q \in 1..Len(poolQueue) : poolQueue[q][1] = poolQueue[1][1]

\* ------------------------------------------------- properties of the plugin entry point
\* how many entries of the handler list were registered for decorator i
EntriesFor(i) == Cardinality({q \in 1..Len(plTable) : plTable[q] = i})

\* C35 as stated: once the load function and then the enable function of a plugin
\* have returned, the handler list holds exactly one entry for each Plugin.subscribe
\* decorator of the method, and an emit of the event invokes the method once for
\* each decorator.
C35_AsStated ==
    (Len(plKinds) = 2 /\ plKinds[1] = "load" /\ plKinds[2] = "enable")
        => /\ \A i \in 1..Len(plDecl) : EntriesFor(i) = 1
           /\ plHits # -1 => plHits = Len(plDecl)

\* C39 as stated: a load, enable or disable call that returned has run the body of
\* the lifecycle callback exactly once, whatever the body raised.
C39_AsStated ==
    plLast.kind \in LifeKinds => plLast.runs = 1

\* C40: the function guard returns never lets an Exception go: it returns the value
\* of fn when fn returned, and None when fn raised, whatever the logger, the
\* provider lookup, the notification and the analysis request then do.
C40_GuardNeverRaises ==
    plLast.kind # "" =>
        /\ plLast.ret # "raised"
        /\ plLast.fn = "raise" => plLast.ret = "None"
        /\ plLast.fn # "raise" => plLast.ret = plLast.fn

\* fn raised, the logger and print failed, the notification raised, the request for
\* the analysis raised, and the guard of MCSL2_API/safety.py has returned None
C40_Witness ==
    /\ plLast.kind = "fn" /\ plLast.full
    /\ plLast.fn = "raise" /\ plLast.ret = "None"
    /\ plLast.sink = "none" /\ plLast.note = "raised" /\ plLast.aio = "raised"

\* ------------------------------------------------- hook_bridge on a pair already hooked
\* thread t is about to run the check of hook_bridge on bus b for a pair that the
\* bus has recorded
Repeating(t, b) ==
    /\ hThr[t].op \in {"start", "direct"}
    /\ hThr[t].todo # <<>>
    /\ Head(hThr[t].todo) = b
    /\ <<hThr[t].name, hThr[t].bridge>> \in hKeys[b]

\* the keys the buses hold for bridge h
KeysOf(h) == {bk \in Buses \X (ServerNames \X {h}) : bk[2] \in hKeys[bk[1]]}

\* C36: a hook_bridge call for a pair of name and bridge that the bus has recorded
\* returns from its check: it connects no listener, registers nothing and records
\* nothing, whatever the registry holds for the name; so a bridge is registered once
\* for each pair recorded for it, and hooking h1 again after h2 took over the name
\* leaves the name with h2.
C36_RepeatAct ==
    \A t \in HookThreads, b \in Buses :
        (Repeating(t, b) /\ hThr'[t] # hThr[t])
        => /\ hRegistry' = hRegistry
           /\ hKeys' = hKeys
           /\ Len(hBridges') = Len(hBridges)
           /\ \A h \in 1..Len(hBridges) :
                 /\ hBridges'[h].log = hBridges[h].log
                 /\ hBridges'[h].closed = hBridges[h].closed
                 /\ hBridges'[h].regs = hBridges[h].regs
           /\ hThr'[t].op = hThr[t].op
           /\ hThr'[t].todo = Tail(hThr[t].todo)

C36_RegisteredPerKey ==
    \A h \in 1..Len(hBridges) :
        /\ hBridges[h].regs <= Cardinality(KeysOf(h))
        /\ (\A t \in HookThreads : hThr[t].op = "idle")
              => hBridges[h].regs = Cardinality(KeysOf(h))

C36_RepeatedHookIsNoOp == []C36_RegisteredPerKey /\ [][C36_RepeatAct]_vars

\* two starts of one name were captured on a bus and have returned, the second
\* bridge holds the name, and a direct hook_bridge call for the first bridge and
\* the same name has gone through its check: the name is still with the second
C36_Witness ==
    \E t \in HookThreads :
        /\ hThr[t].op = "direct" /\ hThr[t].todo = <<>> /\ hThr[t].bridge = 1
        /\ Len(hBridges) = 2
        /\ hBridges[1].name = hThr[t].name /\ hBridges[2].name = hThr[t].name
        /\ hBridges[1].ret /\ hBridges[2].ret
        /\ hStart = <<hThr[t].bus>>
        /\ hBridges[1].regs = 1 /\ hBridges[2].regs = 1
        /\ Len(hBridges[1].log) = 1
        /\ hRegistry[hThr[t].name] = 2

\* ------------------------------------------------- what the start wrapper returns
\* the capture path of the wrapper that is next for t fails in this step
CaptureFailed(t) ==
    /\ hThr[t].op = "start"
    /\ hThr[t].todo # <<>>
    /\ <<hThr[t].name, hThr[t].bridge>> \notin hKeys[Head(hThr[t].todo)]
    /\ hThr'[t].op \in {"start", "idle"}
    /\ hThr'[t] # hThr[t]

\* C37: a start call through the wrappers returns what the original function
\* returned, bridge, EULA object or None, and a capture path that fails changes
\* neither that value nor the bus nor the registry: the call goes on to the next
\* wrapper and raises nothing.
C37_WrapAct ==
    \A t \in HookThreads :
        /\ (hThr[t].op = "start" /\ hThr'[t].op = "idle")
              => /\ hThr'[t].val = hThr[t].res
                 /\ hThr[t].todo = <<>>
        /\ CaptureFailed(t)
              => /\ hThr'[t].op = "start"
                 /\ hThr'[t].todo = Tail(hThr[t].todo)
                 /\ hThr'[t].res = hThr[t].res
                 /\ UNCHANGED <<hKeys, hBridges, hRegistry, hStart>>

C37_NothingRaised == \A t \in HookThreads : hThr[t].val \in StartResults \cup {""}

C37_WrapperReturnsOriginal == []C37_NothingRaised /\ [][C37_WrapAct]_vars

\* the start of a named server made a bridge while a wrapper was installed, the
\* capture path failed, and the call has returned the bridge: no listener, no key,
\* no registry entry
C37_Witness ==
    \E t \in HookThreads, h \in 1..Len(hBridges) :
        /\ hThr[t].op = "idle" /\ hThr[t].val = "bridge"
        /\ hBridges[h].ret
        /\ hBridges[h].name # ""
        /\ hBridges[h].wrapped # <<>>
        /\ hBridges[h].log = <<>> /\ hBridges[h].regs = 0
        /\ \A b \in Buses : <<hBridges[h].name, h>> \notin hKeys[b]
        /\ Len(hBridges) = 1

\* ------------------------------------------------- the installed flag
\* C38: the flag _hooks_installed of a bus is set only where the host is loaded and
\* ServerLauncher.start carries the marker; an install_hooks call that returns
\* because the host is absent leaves the flag and the factory as they were, so a
\* later call on that bus is not stopped by the flag: every install_hooks call that
\* returns in a loaded host leaves a factory that carries the marker.
C38_FlagInv ==
    \A b \in Buses : hInstalled[b] => hHost /\ HasMarker(hStart)

C38_InstallAct ==
    \A b \in Buses :
        hDone'[b] = hDone[b] + 1
        => /\ hHost => HasMarker(hStart') /\ hInstalled'[b]
           /\ ~hHost => hInstalled' = hInstalled /\ ~hInstalled'[b] /\ hStart' = hStart

C38_FlagOnlyWithMarker == []C38_FlagInv /\ [][C38_InstallAct]_vars

\* an install_hooks call on bus b has returned without setting the flag, which only
\* the return without a host does; the host has been loaded since, and a later call
\* on b has read the original function and is about to wrap it
C38_Witness ==
    \E t \in HookThreads :
        /\ hThr[t].op = "patch"
        /\ hDone[hThr[t].bus] = 1
        /\ ~hInstalled[hThr[t].bus]
        /\ hStart = <<>>
        /\ hHost
        /\ hCalls = 2

====
